---- MODULE Spec2Model ----
(***************************************************************************)
(* Model of the vibe-chef Telegram bot: the manual-entry variant, the      *)
(* recipe stores, and the variant that extracts recipes from videos.       *)
(*                                                                         *)
(* One update of the chat transport is processed at a time (bot.start()    *)
(* long polling), so every action below is one update processed to the     *)
(* end: sessionMiddleware (before), errorHandler, the first matching       *)
(* handler in registration order, sessionMiddleware (after).               *)
(*                                                                         *)
(* Strings are sequences of atoms (words, " ", "\n", "_", "/"), so that    *)
(* trim, split, startsWith, replace and toLowerCase are computed.          *)
(* An optional value (undefined / null in the source) is a set with at     *)
(* most one element.                                                       *)
(***************************************************************************)
EXTENDS Integers, Sequences, FiniteSets, TLC

VARIABLES tasks, recipes, userRecipes, sessions, nextId, last, armed,
          memory, redis, answer, call, job

\* the bot, and the two recipe stores of the video variant
botVars == <<recipes, userRecipes, sessions, nextId, last, armed>>

storeVars == <<memory, redis, answer>>

\* the last direct call of InMemoryStorage, the last update of the video bot
sideVars == <<call, job, tasks>>

vars == <<recipes, userRecipes, sessions, nextId, last, armed, memory, redis, answer,
          call, job, tasks>>

-----------------------------------------------------------------------------
(* Bounds *)

\* number of recipes that may be created in one behaviour (ids are fresh)
MaxRecipes == 2

\* number of recipes that may be created in the conversation of one user
MaxFlowRecipes == 1

\* at most this many ingredient lists of a user are counted
MaxAccepted == 2

\* number of calls of RecipeStorage that may be in flight at once
MaxTasks == 2

Tasks == 1..MaxTasks

RaceIds == {"r1", "r2"}

\* a call of RecipeStorage in flight: its name, the command it is about to
\* send, its argument
NoTask == [ op |-> "none", pc |-> "idle", id |-> "", recipe |-> {} ]

\* the values crypto.randomUUID() returns, in order
UUIDs == <<"id1", "id2", "id3", "id4">>

\* an identifier no recipe ever has
GhostId == "id0"

Users == {1, 2}

-----------------------------------------------------------------------------
(* Optional values *)

None == {}
Some(v) == {v}
The(o) == CHOOSE v \in o : TRUE

-----------------------------------------------------------------------------
(* String functions of the JavaScript runtime, on sequences of atoms *)

IsPrefix(p, s) == /\ Len(p) =< Len(s)
                  /\ \A i \in 1..Len(p) : s[i] = p[i]

StartsWith(s, p) == IsPrefix(p, s)

Drop(s, n) == IF n >= Len(s) THEN <<>> ELSE SubSeq(s, n + 1, Len(s))

\* positions at which p occurs in s
Occurrences(s, p) == {i \in 1..(Len(s) - Len(p) + 1) : IsPrefix(p, Drop(s, i - 1))}

\* s.replace(p, ''): the first occurrence of p is removed
ReplaceFirst(s, p) ==
  IF Occurrences(s, p) = {} THEN s
  ELSE LET i == CHOOSE k \in Occurrences(s, p) : \A j \in Occurrences(s, p) : k =< j
       IN  SubSeq(s, 1, i - 1) \o Drop(s, i - 1 + Len(p))

IsSpace(a) == a \in {" ", "\n"}

RECURSIVE TrimStart(_)
TrimStart(s) == IF s # <<>> /\ IsSpace(Head(s)) THEN TrimStart(Tail(s)) ELSE s

RECURSIVE TrimEnd(_)
TrimEnd(s) == IF s # <<>> /\ IsSpace(s[Len(s)]) THEN TrimEnd(SubSeq(s, 1, Len(s) - 1)) ELSE s

Trim(s) == TrimEnd(TrimStart(s))

\* s.split('\n'): always at least one piece
RECURSIVE SplitLines(_)
SplitLines(s) ==
  IF \E i \in 1..Len(s) : s[i] = "\n"
  THEN LET i == CHOOSE k \in 1..Len(s) : s[k] = "\n" /\ \A j \in 1..(k - 1) : s[j] # "\n"
       IN  <<SubSeq(s, 1, i - 1)>> \o SplitLines(Drop(s, i))
  ELSE <<s>>

LowerAtom(a) == CASE a = "Use" -> "use"
                  [] a = "Ispolzovat" -> "ispolzovat"
                  [] a = "P" -> "p"
                  [] a = "T" -> "t"
                  [] a = "E" -> "e"
                  [] a = "I" -> "i"
                  [] a = "USE" -> "use"
                  [] a = "Suggestion" -> "suggestion"
                  [] a = "Pancakes" -> "pancakes"
                  [] OTHER -> a

ToLowerCase(s) == [i \in 1..Len(s) |-> LowerAtom(s[i])]

\* lines.filter(line => line.length > 0)
RECURSIVE NonEmptyLines(_)
NonEmptyLines(lines) ==
  IF lines = <<>> THEN <<>>
  ELSE IF Len(Head(lines)) > 0 THEN <<Head(lines)>> \o NonEmptyLines(Tail(lines))
       ELSE NonEmptyLines(Tail(lines))

-----------------------------------------------------------------------------
(* Data *)

\* RecipeCategory, and the callback tokens of createCategoryKeyboard
CategoryTokens ==
  { <<"main", "_", "course">>, <<"appetizer">>, <<"dessert">>, <<"beverage">>,
    <<"soup">>, <<"salad">>, <<"breakfast">>, <<"snack">>, <<"other">> }

CategoryKeyboard == { <<"category", "_">> \o c : c \in CategoryTokens }

\* UserSession
NewSession(u) ==
  [ userId |-> u, state |-> "idle", currentRecipe |-> None,
    classifiedIngredients |-> None, pendingDelete |-> None ]

NoRecipe == None

\* what the last update did, as seen from outside
NoOutput == [ user |-> 0, update |-> "none", input |-> <<>>, before |-> None,
              replies |-> <<>>, classifyCalls |-> 0, sent |-> None, listed |-> <<>>,
              removed |-> {}, added |-> {}, shown |-> None, suggested |-> None,
              accessed |-> <<>>, accepted |-> [u \in Users |-> 0] ]

\* no direct call of the store yet; a call records its name, its argument,
\* what it returned and whether it threw
NoCall == [ op |-> "none", id |-> <<>>, found |-> None, thrown |-> FALSE ]

\* no update of the video bot yet; an update records its text, the table of
\* recipes it found, the requests sent to the remote services in order, what
\* the services answered, the results of extraction and translation, the
\* error caught, the text the status message ends with, the recipe card sent,
\* whether an exception left the handler and whether anything was sent to
\* the user
NoJob ==
  [ update |-> "none", input |-> <<>>, table |-> <<>>, requests |-> <<>>,
    served |-> [ transcript |-> None, extract |-> None, translate |-> None ],
    extracted |-> None, translated |-> None, error |-> None, message |-> <<>>,
    card |-> None, thrown |-> FALSE, replied |-> FALSE, accessed |-> <<>> ]

-----------------------------------------------------------------------------
(* InMemoryStorage *)

GetSession(sess, u) == sess[u]

SetSession(sess, u, session) == [sess EXCEPT ![u] = Some(session)]

\* variant: clears the whole table (this.sessions.clear())
ClearEverySession(sess, u) == [v \in DOMAIN sess |-> None]

ClearSession(sess, u) == [sess EXCEPT ![u] = None]

\* this.recipes.get(id) || null
GetRecipe(rec, id) == IF id \in DOMAIN rec THEN Some(rec[id]) ELSE None

\* recipes is a function from the stored identifiers to the records
SaveRecipe(st, recipe) ==
  LET idx == st.userRecipes[recipe.userId]
      has == \E i \in 1..Len(idx) : idx[i] = recipe.id
  IN  [ recipes |-> [id \in DOMAIN st.recipes \cup {recipe.id} |->
                       IF id = recipe.id THEN recipe ELSE st.recipes[id]],
        userRecipes |-> IF has THEN st.userRecipes
                        ELSE [st.userRecipes EXCEPT ![recipe.userId] = Append(idx, recipe.id)] ]

RECURSIVE WithoutId(_, _)
WithoutId(idx, id) ==
  IF idx = <<>> THEN <<>>
  ELSE IF Head(idx) # id THEN <<Head(idx)>> \o WithoutId(Tail(idx), id)
       ELSE WithoutId(Tail(idx), id)

\* defined only for a stored id; the caller handles the throw of a missing one
DeleteRecipe(st, id) ==
  LET recipe == st.recipes[id]
  IN  [ recipes |-> [i \in DOMAIN st.recipes \ {id} |-> st.recipes[i]],
        userRecipes |-> [st.userRecipes EXCEPT
                           ![recipe.userId] = WithoutId(st.userRecipes[recipe.userId], id)] ]

\* deleteRecipe: a missing id is an Error thrown before anything is written
DeleteRecipeOrThrow(st, id) ==
  IF id \notin DOMAIN st.recipes
  THEN [ recipes |-> st.recipes, userRecipes |-> st.userRecipes, thrown |-> TRUE ]
  ELSE [ recipes |-> DeleteRecipe(st, id).recipes,
         userRecipes |-> DeleteRecipe(st, id).userRecipes, thrown |-> FALSE ]

\* { ...recipe, ...updates }: the fields of updates over those of recipe; the
\* records of the model carry no updatedAt
Spread(recipe, updates) ==
  [ f \in DOMAIN recipe \cup DOMAIN updates |->
      IF f \in DOMAIN updates THEN updates[f] ELSE recipe[f] ]

\* variant: a missing id is stored as a new record
UpdateRecipeUpsert(st, id, updates) ==
  [ recipes |-> [i \in DOMAIN st.recipes \cup {id} |->
                   IF i = id THEN updates ELSE st.recipes[i]],
    userRecipes |-> st.userRecipes, thrown |-> FALSE ]

\* updateRecipe: the record is replaced under its key, the index of the user
\* is not touched
UpdateRecipe(st, id, updates) ==
  IF id \notin DOMAIN st.recipes
  THEN [ recipes |-> st.recipes, userRecipes |-> st.userRecipes, thrown |-> TRUE ]
  ELSE [ recipes |-> [st.recipes EXCEPT ![id] = Spread(st.recipes[id], updates)],
         userRecipes |-> st.userRecipes, thrown |-> FALSE ]

RECURSIVE CollectRecipes(_, _)
CollectRecipes(rec, ids) ==
  IF ids = <<>> THEN <<>>
  ELSE IF Head(ids) \in DOMAIN rec
       THEN <<rec[Head(ids)]>> \o CollectRecipes(rec, Tail(ids))
       ELSE CollectRecipes(rec, Tail(ids))

GetUserRecipes(st, u) == CollectRecipes(st.recipes, st.userRecipes[u])

-----------------------------------------------------------------------------
(* ZaiAIService: the remote model is an input; the fallbacks are the code's *)

\* request.ingredients.map(name => ({ name }))
ClassifyFallback(lines) == [i \in 1..Len(lines) |-> [name |-> lines[i], classification |-> None]]

\* a well-formed answer of the model: every line with a classification
ClassifyAnswer(lines) ==
  [i \in 1..Len(lines) |-> [name |-> lines[i], classification |-> Some(<<"other">>)]]

ClassifyOutcomes == {"ok", "fail"}

ClassifyIngredients(lines, outcome) ==
  IF outcome = "ok" THEN ClassifyAnswer(lines) ELSE ClassifyFallback(lines)

\* the sentinel suggestTitle returns when the call fails (Cyrillic in the
\* source, transliterated here)
TitleFallback == <<"Retsept", " ", "bez", " ", "nazvaniya">>

\* the sentinel handleCategorySelection compares with
UntitledSentinel == <<"Untitled", " ", "Recipe">>

SuggestOutcomes == {"ok", "blank", "fail"}

\* response.trim(), or the fallback
SuggestTitle(names, outcome) ==
  CASE outcome = "ok" -> Trim(<<" ", "Omelette", "\n">>)
    [] outcome = "blank" -> Trim(<<" ">>)
    [] OTHER -> TitleFallback

-----------------------------------------------------------------------------
(* The context of one update: the session object the middleware attached    *)
(* (obj), whether the stored session of the sender is that object (alias),  *)
(* the stores, and what was sent.                                           *)

\* a mutation of the session object is seen through the store while the
\* store holds that object
Mutate(c, o) ==
  [c EXCEPT !.obj = o,
            !.sess = IF c.alias THEN SetSession(c.sess, c.user, o) ELSE c.sess]

Reply(c, r) == [c EXCEPT !.replies = Append(c.replies, r)]

Throw(c) == [c EXCEPT !.thrown = TRUE]

\* a call of a recipe operation of the store, by its name
Access(c, op) == [c EXCEPT !.accessed = Append(c.accessed, op)]

\* sessionMiddleware, up to next()
SessionBefore(u) ==
  LET found == GetSession(sessions, u)
      session == IF found = None THEN NewSession(u) ELSE The(found)
      sess == IF found = None THEN SetSession(sessions, u, session) ELSE sessions
  IN  [ user |-> u, obj |-> session, alias |-> TRUE, sess |-> sess,
        recipes |-> recipes, userRecipes |-> userRecipes, nextId |-> nextId,
        replies |-> <<>>, classifyCalls |-> 0, sent |-> None, listed |-> <<>>,
        thrown |-> FALSE, shown |-> None, suggested |-> None, accessed |-> <<>> ]

\* sessionMiddleware, after next(): storage.setSession(userId, session)
SessionAfter(c) == SetSession(c.sess, c.user, c.obj)

\* errorHandler: a throw of the handler becomes a reply
ErrorHandler(c) == IF c.thrown THEN Reply(c, "error") ELSE c

-----------------------------------------------------------------------------
(* setupCommands *)

\* grammy's bot.command(name): the text is "/" name, optionally followed by
\* a space and the argument
IsCommand(text, name) ==
  /\ Len(text) >= 2
  /\ text[1] = "/"
  /\ text[2] = name
  /\ Len(text) >= 3 => text[3] = " "

\* ctx.match: the text after the command
Match(text) == Trim(Drop(text, 2))

StartCommand(c) == Reply(c, "welcome")

HelpCommand(c) == Reply(c, "help")

MyRecipesCommand(c) ==
  LET list == GetUserRecipes(c, c.user)
      c1 == Access(c, "getUserRecipes")
  IN  IF Len(list) = 0 THEN Reply(c1, "no_recipes")
      ELSE Reply([c1 EXCEPT !.listed = list], "my_recipes")

\* variant: the store is asked before the argument is looked at
RecipeCommandLooksUpFirst(c, text) ==
  LET recipeId == Match(text)
      recipe == GetRecipe(c.recipes, recipeId)
      c1 == Access(c, "getRecipe")
  IN  IF recipe = None
      THEN IF recipeId = <<>> THEN Reply(c1, "usage") ELSE Reply(c1, "not_found")
      ELSE IF The(recipe).userId # c.user THEN Reply(c1, "access_denied")
      ELSE Reply([c1 EXCEPT !.sent = recipe], "recipe")

RecipeCommand(c, text) ==
  LET recipeId == Match(text)
      recipe == GetRecipe(c.recipes, recipeId)
      c1 == Access(c, "getRecipe")
  IN  IF recipeId = <<>> THEN Reply(c, "usage")
      ELSE IF recipe = None THEN Reply(c1, "not_found")
      ELSE IF The(recipe).userId # c.user THEN Reply(c1, "access_denied")
      ELSE Reply([c1 EXCEPT !.sent = recipe], "recipe")

CancelCommand(c) ==
  LET session == GetSession(c.sess, c.user)
  IN  IF session = None \/ The(session).state = "idle"
      THEN Reply(c, "nothing_to_cancel")
      ELSE Reply([c EXCEPT !.sess = ClearSession(c.sess, c.user), !.alias = FALSE],
                 "cancelled")

-----------------------------------------------------------------------------
(* setupConversation *)

TrimAll(lines) == [i \in 1..Len(lines) |-> Trim(lines[i])]

Names(ingredients) == [i \in 1..Len(ingredients) |-> ingredients[i].name]

\* variant: classifyIngredients without its catch, the failure of the remote
\* model reaches the error handler
HandleNewIngredientsNoFallback(c, text, ai) ==
  LET ingredientLines == NonEmptyLines(TrimAll(SplitLines(text)))
      classification == ClassifyAnswer(ingredientLines)
      session == [c.obj EXCEPT
                    !.state = "selecting_category",
                    !.classifiedIngredients = Some(classification),
                    !.currentRecipe = Some([ ingredients |-> classification,
                                             userId |-> c.user,
                                             category |-> None,
                                             title |-> None,
                                             photo |-> None ])]
  IN  IF Len(ingredientLines) = 0 THEN Reply(c, "validation")
      ELSE LET c1 == Reply(c, "analyzing")
               c2 == [c1 EXCEPT !.classifyCalls = c1.classifyCalls + 1]
           IN  IF ai.classify = "fail" THEN Throw(c2)
               ELSE Reply(Mutate(c2, session), "classified")

\* variant: no check of ingredientLines.length
HandleNewIngredientsUnchecked(c, text, ai) ==
  LET ingredientLines == NonEmptyLines(TrimAll(SplitLines(text)))
      classification == ClassifyIngredients(ingredientLines, ai.classify)
      session == [c.obj EXCEPT
                    !.state = "selecting_category",
                    !.classifiedIngredients = Some(classification),
                    !.currentRecipe = Some([ ingredients |-> classification,
                                             userId |-> c.user,
                                             category |-> None,
                                             title |-> None,
                                             photo |-> None ])]
      c1 == Reply(c, "analyzing")
      c2 == [c1 EXCEPT !.classifyCalls = c1.classifyCalls + 1]
  IN  Reply(Mutate(c2, session), "classified")

HandleNewIngredients(c, text, ai) ==
  LET ingredientLines == NonEmptyLines(TrimAll(SplitLines(text)))
      classification == ClassifyIngredients(ingredientLines, ai.classify)
      session == [c.obj EXCEPT
                    !.state = "selecting_category",
                    !.classifiedIngredients = Some(classification),
                    !.currentRecipe = Some([ ingredients |-> classification,
                                             userId |-> c.user,
                                             category |-> None,
                                             title |-> None,
                                             photo |-> None ])]
  IN  IF Len(ingredientLines) = 0 THEN Reply(c, "validation")
      ELSE LET c1 == Reply(c, "analyzing")
               c2 == [c1 EXCEPT !.classifyCalls = c1.classifyCalls + 1]
           IN  Reply(Mutate(c2, session), "classified")

UseSuggestionPhrases ==
  { <<"use", " ", "suggestion">>, <<"ispolzovat", " ", "predlozhenie">> }

HandleTitleInput(c, text, ai) ==
  LET title == Trim(text)
      suggested == SuggestTitle(Names(The(c.obj.classifiedIngredients)), ai.suggest)
      chosen == IF ToLowerCase(title) \in UseSuggestionPhrases THEN suggested ELSE title
  IN  IF Len(title) = 0 THEN Reply(c, "title_again")
      ELSE IF c.obj.currentRecipe = None THEN Throw(c)
      ELSE Reply(Mutate(c, [c.obj EXCEPT
                              !.currentRecipe = Some([The(c.obj.currentRecipe) EXCEPT
                                                        !.title = Some(chosen)]),
                              !.state = "adding_photo"]),
                 "title_set")

\* variant: every state but adding_title takes the text as ingredients
MessageTextAnyState(c, text, ai) ==
  IF StartsWith(text, <<"/">>) THEN c
  ELSE IF c.obj.state = "adding_title" THEN HandleTitleInput(c, text, ai)
  ELSE HandleNewIngredients(c, text, ai)

\* bot.on('message:text')
MessageText(c, text, ai) ==
  IF StartsWith(text, <<"/">>) THEN c
  ELSE CASE c.obj.state = "idle" -> HandleNewIngredients(c, text, ai)
         [] c.obj.state = "adding_title" -> HandleTitleInput(c, text, ai)
         [] OTHER -> Reply(c, "finish_or_cancel")

-----------------------------------------------------------------------------
(* setupPhotos *)

FinalizeRecipe(c) ==
  LET recipeId == <<UUIDs[c.nextId]>>
      partial == The(c.obj.currentRecipe)
      recipe == [ id |-> recipeId, userId |-> c.user,
                  ingredients |-> partial.ingredients, category |-> partial.category,
                  title |-> partial.title, photo |-> partial.photo ]
      saved == SaveRecipe(c, recipe)
      c1 == [Access(c, "saveRecipe") EXCEPT
                      !.recipes = saved.recipes,
                      !.userRecipes = saved.userRecipes,
                      !.nextId = c.nextId + 1,
                      !.sess = ClearSession(c.sess, c.user),
                      !.alias = FALSE,
                      !.sent = Some(recipe)]
  IN  Reply(Reply(Reply(c1, "saved"), "recipe"), "more")

\* variant: a photo is taken whenever a partial recipe exists
MessagePhotoAnyState(c, photo) ==
  IF c.obj.currentRecipe = None THEN Reply(c, "send_ingredients_first")
  ELSE IF Len(photo) = 0 THEN Reply(c, "photo_failed")
  ELSE FinalizeRecipe(Mutate(c, [c.obj EXCEPT
                                   !.currentRecipe = Some([The(c.obj.currentRecipe) EXCEPT
                                                             !.photo = Some(photo[Len(photo)])])]))

\* bot.on('message:photo')
MessagePhoto(c, photo) ==
  IF c.obj.state # "adding_photo" THEN Reply(c, "send_ingredients_first")
  ELSE IF Len(photo) = 0 THEN Reply(c, "photo_failed")
  ELSE FinalizeRecipe(Mutate(c, [c.obj EXCEPT
                                   !.currentRecipe = Some([The(c.obj.currentRecipe) EXCEPT
                                                             !.photo = Some(photo[Len(photo)])])]))

\* bot.command('skip')
SkipCommand(c) ==
  IF c.obj.state # "adding_photo" THEN c ELSE FinalizeRecipe(c)

-----------------------------------------------------------------------------
(* setupViewer *)

\* variant: the token taken as data.split('_')[1]
HandleCategorySelectionSplit(c, data, ai) ==
  LET category == <<data[3]>>
      session == [c.obj EXCEPT
                    !.currentRecipe = Some([The(c.obj.currentRecipe) EXCEPT
                                              !.category = Some(category)]),
                    !.state = "adding_title"]
  IN  IF c.obj.currentRecipe = None THEN Throw(c)
      ELSE Reply(Reply(Mutate(c, session), "ack"), "category_ask_title")

HandleCategorySelection(c, data, ai) ==
  LET category == ReplaceFirst(data, <<"category", "_">>)
      session == [c.obj EXCEPT
                    !.currentRecipe = Some([The(c.obj.currentRecipe) EXCEPT
                                              !.category = Some(category)]),
                    !.state = "adding_title"]
      suggestedTitle == SuggestTitle(Names(The(c.obj.classifiedIngredients)), ai.suggest)
  IN  IF c.obj.currentRecipe = None THEN Throw(c)
      ELSE LET c1 == Mutate(c, session)
           IN  IF c.obj.classifiedIngredients = None THEN Throw(c1)
               ELSE LET c2 == [c1 EXCEPT !.suggested = Some(suggestedTitle)]
                    IN  IF suggestedTitle # <<>> /\ suggestedTitle # UntitledSentinel
                        THEN Reply(Reply([c2 EXCEPT !.shown = Some(suggestedTitle)], "ack"),
                                   "category_with_suggestion")
                        ELSE Reply(Reply(c2, "ack"), "category_ask_title")

\* variant: no check of the owner
HandleViewRecipeAnyUser(c, data) ==
  LET recipeId == ReplaceFirst(data, <<"view", "_">>)
      recipe == GetRecipe(c.recipes, recipeId)
  IN  IF recipe = None THEN Reply(c, "not_found")
      ELSE Reply(Reply([c EXCEPT !.sent = recipe], "ack"), "recipe")

HandleViewRecipe(c, data) ==
  LET recipeId == ReplaceFirst(data, <<"view", "_">>)
      recipe == GetRecipe(c.recipes, recipeId)
      c1 == Access(c, "getRecipe")
  IN  IF recipe = None THEN Reply(c1, "not_found")
      ELSE IF The(recipe).userId # c.user THEN Reply(c1, "access_denied")
      ELSE Reply(Reply([c1 EXCEPT !.sent = recipe], "ack"), "recipe")

\* variant: deletes at once, without the confirmation
HandleDeleteRecipeAtOnce(c, data) ==
  LET recipeId == ReplaceFirst(data, <<"delete", "_">>)
      recipe == GetRecipe(c.recipes, recipeId)
      deleted == DeleteRecipe(c, recipeId)
  IN  IF recipe = None THEN Reply(c, "not_found")
      ELSE IF The(recipe).userId # c.user THEN Reply(c, "access_denied")
      ELSE Reply(Reply([c EXCEPT !.recipes = deleted.recipes,
                                 !.userRecipes = deleted.userRecipes], "ack"), "deleted")

HandleDeleteRecipe(c, data) ==
  LET recipeId == ReplaceFirst(data, <<"delete", "_">>)
      recipe == GetRecipe(c.recipes, recipeId)
      session == GetSession(c.sess, c.user)
      c0 == Access(c, "getRecipe")
      c1 == IF session # None
            THEN Mutate(c0, [The(session) EXCEPT !.pendingDelete = Some(recipeId)])
            ELSE c0
  IN  IF recipe = None THEN Reply(c0, "not_found")
      ELSE IF The(recipe).userId # c.user THEN Reply(c0, "access_denied")
      ELSE Reply(Reply(c1, "ack"), "confirm_prompt")

\* variant: the pending field is not cleared
HandleConfirmYesKeepsPending(c) ==
  LET session == GetSession(c.sess, c.user)
      recipeId == The(The(session).pendingDelete)
      deleted == DeleteRecipe(c, recipeId)
      c1 == [c EXCEPT !.recipes = deleted.recipes, !.userRecipes = deleted.userRecipes]
  IN  IF session = None \/ The(session).pendingDelete = None
      THEN Reply(c, "no_pending")
      ELSE IF recipeId \notin DOMAIN c.recipes THEN Reply(c, "delete_failed")
      ELSE Reply(Reply(c1, "deleted_ack"), "deleted")

HandleConfirmYes(c) ==
  LET session == GetSession(c.sess, c.user)
      recipeId == The(The(session).pendingDelete)
      deleted == DeleteRecipe(c, recipeId)
      c0 == Access(c, "deleteRecipe")
      c1 == Mutate([c0 EXCEPT !.recipes = deleted.recipes,
                              !.userRecipes = deleted.userRecipes],
                   [The(session) EXCEPT !.pendingDelete = None])
  IN  IF session = None \/ The(session).pendingDelete = None
      THEN Reply(c, "no_pending")
      ELSE IF recipeId \notin DOMAIN c.recipes THEN Reply(c0, "delete_failed")
      ELSE Reply(Reply(c1, "deleted_ack"), "deleted")

\* variant: the pending field is not cleared
HandleConfirmNoKeepsPending(c) ==
  Reply(Reply(c, "deletion_cancelled_ack"), "deletion_cancelled")

HandleConfirmNo(c) ==
  LET session == GetSession(c.sess, c.user)
      c1 == IF session # None
            THEN Mutate(c, [The(session) EXCEPT !.pendingDelete = None])
            ELSE c
  IN  Reply(Reply(c1, "deletion_cancelled_ack"), "deletion_cancelled")

\* variant: the Edit button is routed to the deletion dialogue
CallbackQueryEditDeletes(c, data, ai) ==
  IF StartsWith(data, <<"category", "_">>) THEN HandleCategorySelection(c, data, ai)
  ELSE IF StartsWith(data, <<"view", "_">>) THEN HandleViewRecipe(c, data)
  ELSE IF StartsWith(data, <<"delete", "_">>) \/ StartsWith(data, <<"edit", "_">>)
       THEN HandleDeleteRecipe(c, data)
  ELSE IF data = <<"confirm", "_", "yes">> THEN HandleConfirmYes(c)
  ELSE IF data = <<"confirm", "_", "no">> THEN HandleConfirmNo(c)
  ELSE Reply(c, "ack")

\* bot.on('callback_query:data')
CallbackQuery(c, data, ai) ==
  IF StartsWith(data, <<"category", "_">>) THEN HandleCategorySelection(c, data, ai)
  ELSE IF StartsWith(data, <<"view", "_">>) THEN HandleViewRecipe(c, data)
  ELSE IF StartsWith(data, <<"delete", "_">>) THEN HandleDeleteRecipe(c, data)
  ELSE IF data = <<"confirm", "_", "yes">> THEN HandleConfirmYes(c)
  ELSE IF data = <<"confirm", "_", "no">> THEN HandleConfirmNo(c)
  ELSE Reply(c, "ack")

-----------------------------------------------------------------------------
(* createBot: the middleware chain in registration order *)

SetupCommandsNames == {"start", "help", "myrecipes", "recipe", "cancel"}

HandledBySetupCommands(text) == \E name \in SetupCommandsNames : IsCommand(text, name)

\* the message:text handler of setupConversation takes (ctx) only and never
\* calls next(): no handler registered after it sees a text message
MessageTextCallsNext == FALSE

\* setupCommands, then setupConversation, then setupPhotos
TextChain(c, text, ai) ==
  IF IsCommand(text, "start") THEN StartCommand(c)
  ELSE IF IsCommand(text, "help") THEN HelpCommand(c)
  ELSE IF IsCommand(text, "myrecipes") THEN MyRecipesCommand(c)
  ELSE IF IsCommand(text, "recipe") THEN RecipeCommand(c, text)
  ELSE IF IsCommand(text, "cancel") THEN CancelCommand(c)
  ELSE LET c1 == MessageText(c, text, ai)
       IN  IF MessageTextCallsNext /\ IsCommand(text, "skip") THEN SkipCommand(c1) ELSE c1

-----------------------------------------------------------------------------
(* Inputs *)

IngredientsText == <<"eggs", "\n", " ", "flour", " ", "\n">>

OneIngredientText == <<" ", "sugar">>

BlankText == <<" ", "\n", " ">>

TitleText == <<" ", "Pancakes", " ">>

AcceptText == <<"Use", " ", "Suggestion">>

AcceptTextRu == <<" ", "Ispolzovat", " ", "predlozhenie">>

\* isValidTitle: text.length <= 100
MaxTitleLength == 100

\* a title of MaxTitleLength + 1 characters, one atom each
LongTitleText == [i \in 1..(MaxTitleLength + 1) |-> "a"]

SkipText == <<"/", "skip">>

\* message.photo: the sizes of one photo, the largest last
PhotoSizes == << [fileId |-> "small", width |-> 90], [fileId |-> "large", width |-> 1280] >>

Ids == { <<UUIDs[i]>> : i \in 1..MaxRecipes } \cup { <<GhostId>> }

RecipeCommandTexts == { <<"/", "recipe">> } \cup { <<"/", "recipe", " ">> \o id : id \in Ids }

ViewData == { <<"view", "_">> \o id : id \in Ids }

DeleteData == { <<"delete", "_">> \o id : id \in Ids }

\* the edit button of createRecipeActionsKeyboard has no handler
OtherData == { <<"edit", "_", UUIDs[1]>> }

AIOutcomes == [classify : ClassifyOutcomes, suggest : SuggestOutcomes]

\* the conversation of two users, with one category button
Texts == { IngredientsText, BlankText, SkipText }

Categories == { <<"main", "_", "course">> }

AIs == { [classify |-> "ok", suggest |-> "ok"] }

-----------------------------------------------------------------------------
(* One update, processed to the end *)

Init ==
  /\ recipes = <<>>
  /\ userRecipes = [u \in Users |-> <<>>]
  /\ sessions = [u \in Users |-> None]
  /\ nextId = 1
  /\ last = NoOutput
  /\ armed = [u \in Users |-> {}]
  /\ memory = <<>>
  /\ redis = [keys |-> <<>>, index |-> {}]
  /\ answer = [ op |-> "none", id |-> "", recipe |-> None, options |-> None,
                found |-> [mem |-> None, redis |-> None],
                list |-> [mem |-> <<>>, redis |-> <<>>],
                flag |-> [mem |-> FALSE, redis |-> FALSE],
                count |-> [mem |-> 0, redis |-> 0] ]
  /\ call = NoCall
  /\ job = NoJob
  /\ tasks = [t \in Tasks |-> NoTask]

\* the state of a session; a user without a session is idle
StateOf(session) == IF session = None THEN "idle" ELSE The(session).state

\* the update was a text taken as the ingredient list of an idle user
AcceptedList(u, update, c) ==
  /\ update = "text"
  /\ StateOf(sessions[u]) = "idle"
  /\ c.obj.state = "selecting_category"

Finish(u, update, input, handled) ==
  LET c == ErrorHandler(handled)
  IN  /\ sessions' = SessionAfter(c)
      /\ recipes' = c.recipes
      /\ userRecipes' = c.userRecipes
      /\ nextId' = c.nextId
      /\ last' = [ user |-> u, update |-> update, input |-> input,
                   before |-> sessions[u], replies |-> c.replies,
                   classifyCalls |-> c.classifyCalls, sent |-> c.sent,
                   listed |-> c.listed,
                   removed |-> { recipes[i] : i \in DOMAIN recipes \ DOMAIN c.recipes },
                   added |-> { c.recipes[i] : i \in DOMAIN c.recipes \ DOMAIN recipes },
                   shown |-> c.shown, suggested |-> c.suggested,
                   accessed |-> c.accessed,
                   accepted |-> IF AcceptedList(u, update, c)
                                THEN [last.accepted EXCEPT ![u] = @ + 1]
                                ELSE last.accepted ]
      /\ UNCHANGED <<storeVars, sideVars>>

NoAI == [classify |-> "fail", suggest |-> "fail"]

\* a finalization needs a fresh identifier; b.cap bounds how many are drawn
CanFinalize(u, b) ==
  (sessions[u] # None /\ The(sessions[u]).state = "adding_photo") => nextId =< b.cap

\* with b.stop the conversation ends with its last finalization
Open(b) == b.stop => nextId =< b.cap

MyRecipes(u) ==
  /\ Finish(u, "myrecipes", <<"/", "myrecipes">>,
            TextChain(SessionBefore(u), <<"/", "myrecipes">>, NoAI))
  /\ UNCHANGED armed

Recipe(u, text) ==
  /\ Finish(u, "recipe", text, TextChain(SessionBefore(u), text, NoAI))
  /\ UNCHANGED armed

Cancel(u, b) ==
  /\ Open(b)
  /\ Finish(u, "cancel", <<"/", "cancel">>, TextChain(SessionBefore(u), <<"/", "cancel">>, NoAI))
  /\ UNCHANGED armed

\* a text message that is no command of setupCommands
TextMessage(u, text, ai, b) ==
  /\ ~HandledBySetupCommands(text)
  /\ last.accepted[u] < MaxAccepted
  /\ Open(b)
  /\ CanFinalize(u, b)
  /\ Finish(u, IF IsCommand(text, "skip") THEN "skip" ELSE "text", text,
            TextChain(SessionBefore(u), text, ai))
  /\ UNCHANGED armed

Photo(u, photo, b) ==
  /\ Open(b)
  /\ CanFinalize(u, b)
  /\ Finish(u, "photo", <<>>, MessagePhoto(SessionBefore(u), photo))
  /\ UNCHANGED armed

CategoryCallback(u, data, suggest, b) ==
  /\ Open(b)
  /\ Finish(u, "category", data,
            CallbackQuery(SessionBefore(u), data, [classify |-> "fail", suggest |-> suggest]))
  /\ UNCHANGED armed

ViewCallback(u, data) ==
  /\ Finish(u, "view", data, CallbackQuery(SessionBefore(u), data, NoAI))
  /\ UNCHANGED armed

\* armed (history, kept when track holds): the identifiers the user asked to
\* delete since the user's last confirm_no; an identifier that is no UUID is
\* left out, no recipe has one
DeleteCallback(u, data, track) ==
  /\ Finish(u, "delete", data, CallbackQuery(SessionBefore(u), data, NoAI))
  /\ armed' = IF track
              THEN [armed EXCEPT ![u] = @ \cup ({ ReplaceFirst(data, <<"delete", "_">>) }
                                                 \ { <<GhostId>> })]
              ELSE armed

ConfirmYes(u) ==
  /\ Finish(u, "confirm_yes", <<"confirm", "_", "yes">>,
            CallbackQuery(SessionBefore(u), <<"confirm", "_", "yes">>, NoAI))
  /\ UNCHANGED armed

ConfirmNo(u) ==
  /\ Finish(u, "confirm_no", <<"confirm", "_", "no">>,
            CallbackQuery(SessionBefore(u), <<"confirm", "_", "no">>, NoAI))
  /\ armed' = [armed EXCEPT ![u] = {}]

OtherCallback(u, data) ==
  /\ Finish(u, "other", data, CallbackQuery(SessionBefore(u), data, NoAI))
  /\ UNCHANGED armed

\* the recipe-entry conversation of the users in U, with the texts, category
\* buttons and answers of the remote model drawn from the given sets
Conversation(U, texts, categories, ais, b) ==
  \E u \in U :
    \/ Cancel(u, b)
    \/ \E text \in texts, ai \in ais : TextMessage(u, text, ai, b)
    \/ Photo(u, PhotoSizes, b)
    \/ \E c \in categories, suggest \in { ai.suggest : ai \in ais } :
         CategoryCallback(u, <<"category", "_">> \o c, suggest, b)

\* the users in U look at and delete stored recipes
Viewing(U, track) ==
  \E u \in U :
    \/ MyRecipes(u)
    \/ \E text \in RecipeCommandTexts : Recipe(u, text)
    \/ \E data \in ViewData : ViewCallback(u, data)
    \/ \E data \in DeleteData : DeleteCallback(u, data, track)
    \/ ConfirmYes(u)
    \/ ConfirmNo(u)
    \/ \E data \in OtherData : OtherCallback(u, data)

\* two users, every update, one category button, the remote model answers
Next ==
  \/ Conversation(Users, Texts, Categories, AIs, [cap |-> MaxRecipes, stop |-> FALSE])
  \/ Viewing(Users, FALSE)

Spec == Init /\ [][Next]_vars

\* the conversation of one user up to the last recipe it may store: every
\* category button, every answer of the remote model
FlowTexts == { IngredientsText, TitleText, SkipText }

NextFlow ==
  Conversation({1}, FlowTexts, CategoryTokens, AIOutcomes,
               [cap |-> MaxFlowRecipes, stop |-> TRUE])

SpecFlow == Init /\ [][NextFlow]_vars

\* user 1 enters recipes, both users look at and delete recipes; with the
\* history of the deletion requests
NextDelete ==
  \/ Conversation({1}, Texts, Categories, AIs, [cap |-> MaxRecipes, stop |-> FALSE])
  \/ Viewing(Users, TRUE)

SpecDelete == Init /\ [][NextDelete]_vars

\* the conversation of one user with the titles a user can send in
\* adding-title and every answer of the title suggestion
TitleTexts == { IngredientsText, AcceptText, AcceptTextRu, LongTitleText }

TitleAIs == [classify : {"ok"}, suggest : SuggestOutcomes]

NextTitle ==
  Conversation({1}, TitleTexts, Categories, TitleAIs,
               [cap |-> MaxFlowRecipes, stop |-> TRUE])

SpecTitle == Init /\ [][NextTitle]_vars

-----------------------------------------------------------------------------
(* RecipeStorage: the in-process table (memory) and the remote cache        *)
(* (redis), given the same calls. A Date is its time value in milliseconds. *)

StoreIds == {"r1", "r2", "r3"}

CreationTimes == {999, 1000}

\* name and ingredients, one atom per character
Dishes ==
  { [ name |-> <<"P", "i", "e">>, ingredients |-> << <<"E", "g", "g">> >> ],
    [ name |-> <<"T", "e", "a">>,
      ingredients |-> << <<"p", "e", "a">>, <<"i", "c", "e">> >> ] }

StoreRecords ==
  { [ id |-> i, name |-> d.name, ingredients |-> d.ingredients, createdAt |-> t ] :
      i \in StoreIds, d \in Dishes, t \in CreationTimes }

\* SearchOptions
Queries == { <<"P", "I">>, <<"e", "a">>, <<"g", "g">>, <<"x">>, <<>> }

SearchInputs ==
  [query : Queries, searchInIngredients : {TRUE}]
    \cup [query : { <<"g", "g">> }, searchInIngredients : {FALSE}]

\* a Map: the entries in insertion order, one per key
MapHas(m, id) == \E i \in 1..Len(m) : m[i].id = id

MapGet(m, id) ==
  IF MapHas(m, id) THEN Some(m[CHOOSE i \in 1..Len(m) : m[i].id = id]) ELSE None

\* Map.set keeps the place of a key it already holds
MapSet(m, r) ==
  IF MapHas(m, r.id)
  THEN [i \in 1..Len(m) |-> IF m[i].id = r.id THEN r ELSE m[i]]
  ELSE Append(m, r)

MapDelete(m, id) == SelectSeq(m, LAMBDA r : r.id # id)

\* Array.prototype.sort((a, b) => b.createdAt.getTime() - a.createdAt.getTime()):
\* a stable sort, the latest first
RECURSIVE InsertByCreatedAt(_, _)
InsertByCreatedAt(sorted, r) ==
  IF sorted = <<>> THEN <<r>>
  ELSE IF Head(sorted).createdAt >= r.createdAt
       THEN <<Head(sorted)>> \o InsertByCreatedAt(Tail(sorted), r)
       ELSE <<r>> \o sorted

RECURSIVE SortByCreatedAt(_)
SortByCreatedAt(list) ==
  IF list = <<>> THEN <<>>
  ELSE InsertByCreatedAt(SortByCreatedAt(SubSeq(list, 1, Len(list) - 1)), list[Len(list)])

\* String.prototype.includes
Includes(text, part) == Occurrences(text, part) # {}

\* variant: name and ingredient must both match
MatchesBoth(recipe, options) ==
  LET lowerQuery == ToLowerCase(options.query)
  IN  /\ Includes(ToLowerCase(recipe.name), lowerQuery)
      /\ \E i \in 1..Len(recipe.ingredients) :
           Includes(ToLowerCase(recipe.ingredients[i]), lowerQuery)

\* the filter of search
Matches(recipe, options) ==
  LET lowerQuery == ToLowerCase(options.query)
      nameMatch == Includes(ToLowerCase(recipe.name), lowerQuery)
      ingredientMatch ==
        /\ options.searchInIngredients
        /\ \E i \in 1..Len(recipe.ingredients) :
             Includes(ToLowerCase(recipe.ingredients[i]), lowerQuery)
  IN  nameMatch \/ ingredientMatch

\* RecipeStorage over a Map
Add(m, recipe) == MapSet(m, recipe)

GetById(m, id) == MapGet(m, id)

\* variant: the values in insertion order
GetAllUnsorted(m) == m

GetAll(m) == SortByCreatedAt(m)

Search(m, options) ==
  SortByCreatedAt(SelectSeq(m, LAMBDA recipe : Matches(recipe, options)))

\* variant: reports a deletion whatever the table held
DeleteAlwaysTrue(m, id) == [store |-> MapDelete(m, id), result |-> TRUE]

Delete(m, id) == [store |-> MapDelete(m, id), result |-> MapHas(m, id)]

Clear(m) == <<>>

Count(m) == Len(m)

Exists(m, id) == MapHas(m, id)

\* Date.prototype.toISOString and new Date(string): date and time to the
\* second, and the milliseconds
ToISOString(t) == [seconds |-> t \div 1000, millis |-> t % 1000]

ParseDate(iso) == iso.seconds * 1000 + iso.millis

\* variant: the time written to the second
SerializeRecipeToSeconds(recipe) ==
  << <<"id", recipe.id>>, <<"name", recipe.name>>,
     <<"ingredients", recipe.ingredients>>,
     <<"createdAt", [seconds |-> recipe.createdAt \div 1000, millis |-> 0]>> >>

\* JSON.stringify({...recipe, createdAt: recipe.createdAt.toISOString()}):
\* the text as its members, in order
SerializeRecipe(recipe) ==
  << <<"id", recipe.id>>, <<"name", recipe.name>>,
     <<"ingredients", recipe.ingredients>>,
     <<"createdAt", ToISOString(recipe.createdAt)>> >>

\* JSON.parse: the value of a member
Member(serialized, key) ==
  serialized[CHOOSE i \in 1..Len(serialized) : serialized[i][1] = key][2]

DeserializeRecipe(serialized) ==
  [ id |-> Member(serialized, "id"), name |-> Member(serialized, "name"),
    ingredients |-> Member(serialized, "ingredients"),
    createdAt |-> ParseDate(Member(serialized, "createdAt")) ]

\* SMEMBERS: the members of the set, in an order the cache chooses
SMembers(set) ==
  { ids \in [1..Cardinality(set) -> set] :
      \A i, j \in 1..Cardinality(set) : i # j => ids[i] # ids[j] }

\* RecipeStorage over the cache: keys holds recipe:<id>, index the set
\* recipe:index
\* the commands of the cache: SET and DEL of recipe:<id>, SADD and SREM of
\* recipe:index
RedisSet(rs, id, text) ==
  [ keys |-> [i \in DOMAIN rs.keys \cup {id} |-> IF i = id THEN text ELSE rs.keys[i]],
    index |-> rs.index ]

RedisSAdd(rs, id) == [ keys |-> rs.keys, index |-> rs.index \cup {id} ]

RedisDel(rs, id) ==
  [ keys |-> [i \in DOMAIN rs.keys \ {id} |-> rs.keys[i]], index |-> rs.index ]

RedisSRem(rs, id) == [ keys |-> rs.keys, index |-> rs.index \ {id} ]

\* add: set, then sadd
RedisAdd(rs, recipe) ==
  RedisSAdd(RedisSet(rs, recipe.id, SerializeRecipe(recipe)), recipe.id)

RedisGetById(rs, id) ==
  IF id \in DOMAIN rs.keys THEN Some(DeserializeRecipe(rs.keys[id])) ELSE None

\* MGET of the keys of ids, the missing ones skipped
RECURSIVE RedisFetch(_, _)
RedisFetch(rs, ids) ==
  IF ids = <<>> THEN <<>>
  ELSE IF Head(ids) \in DOMAIN rs.keys
       THEN <<DeserializeRecipe(rs.keys[Head(ids)])>> \o RedisFetch(rs, Tail(ids))
       ELSE RedisFetch(rs, Tail(ids))

RedisGetAll(rs, ids) == SortByCreatedAt(RedisFetch(rs, ids))

RedisSearch(rs, ids, options) ==
  SortByCreatedAt(SelectSeq(RedisGetAll(rs, ids), LAMBDA recipe : Matches(recipe, options)))

\* delete: exists, then del, then srem
RedisDelete(rs, id) ==
  IF id \notin DOMAIN rs.keys THEN [store |-> rs, result |-> FALSE]
  ELSE [ store |-> RedisSRem(RedisDel(rs, id), id), result |-> TRUE ]

RedisClear(rs) ==
  IF rs.index = {} THEN rs
  ELSE [ keys |-> [i \in DOMAIN rs.keys \ rs.index |-> rs.keys[i]], index |-> {} ]

RedisCount(rs) == Cardinality(rs.index)

RedisExists(rs, id) == id \in DOMAIN rs.keys

\* no call yet; a call records its name, its argument, and what each store
\* returned: a record or nothing (found), a list, a boolean (flag), a number
NoAnswer ==
  [ op |-> "none", id |-> "", recipe |-> None, options |-> None,
    found |-> [mem |-> None, redis |-> None],
    list |-> [mem |-> <<>>, redis |-> <<>>],
    flag |-> [mem |-> FALSE, redis |-> FALSE],
    count |-> [mem |-> 0, redis |-> 0] ]

CallAdd(recipe) ==
  /\ memory' = Add(memory, recipe)
  /\ redis' = RedisAdd(redis, recipe)
  /\ answer' = [NoAnswer EXCEPT !.op = "add", !.recipe = Some(recipe)]
  /\ UNCHANGED <<botVars, sideVars>>

CallGetById(id) ==
  /\ answer' = [NoAnswer EXCEPT !.op = "getById", !.id = id,
                                !.found = [mem |-> GetById(memory, id),
                                           redis |-> RedisGetById(redis, id)]]
  /\ UNCHANGED <<memory, redis>>
  /\ UNCHANGED <<botVars, sideVars>>

CallGetAll ==
  /\ \E ids \in SMembers(redis.index) :
       answer' = [NoAnswer EXCEPT !.op = "getAll",
                                  !.list = [mem |-> GetAll(memory),
                                            redis |-> RedisGetAll(redis, ids)]]
  /\ UNCHANGED <<memory, redis>>
  /\ UNCHANGED <<botVars, sideVars>>

CallSearch(options) ==
  /\ \E ids \in SMembers(redis.index) :
       answer' = [NoAnswer EXCEPT !.op = "search", !.options = Some(options),
                                  !.list = [mem |-> Search(memory, options),
                                            redis |-> RedisSearch(redis, ids, options)]]
  /\ UNCHANGED <<memory, redis>>
  /\ UNCHANGED <<botVars, sideVars>>

CallDelete(id) ==
  /\ memory' = Delete(memory, id).store
  /\ redis' = RedisDelete(redis, id).store
  /\ answer' = [NoAnswer EXCEPT !.op = "delete", !.id = id,
                                !.flag = [mem |-> Delete(memory, id).result,
                                          redis |-> RedisDelete(redis, id).result]]
  /\ UNCHANGED <<botVars, sideVars>>

CallClear ==
  /\ memory' = Clear(memory)
  /\ redis' = RedisClear(redis)
  /\ answer' = [NoAnswer EXCEPT !.op = "clear"]
  /\ UNCHANGED <<botVars, sideVars>>

CallCount ==
  /\ answer' = [NoAnswer EXCEPT !.op = "count",
                                !.count = [mem |-> Count(memory),
                                           redis |-> RedisCount(redis)]]
  /\ UNCHANGED <<memory, redis>>
  /\ UNCHANGED <<botVars, sideVars>>

CallExists(id) ==
  /\ answer' = [NoAnswer EXCEPT !.op = "exists", !.id = id,
                                !.flag = [mem |-> Exists(memory, id),
                                          redis |-> RedisExists(redis, id)]]
  /\ UNCHANGED <<memory, redis>>
  /\ UNCHANGED <<botVars, sideVars>>

NextStore ==
  \/ \E recipe \in StoreRecords : CallAdd(recipe)
  \/ \E id \in StoreIds : CallGetById(id)
  \/ CallGetAll
  \/ \E options \in SearchInputs : CallSearch(options)
  \/ \E id \in StoreIds : CallDelete(id)
  \/ CallClear
  \/ CallCount
  \/ \E id \in StoreIds : CallExists(id)

SpecStore == Init /\ [][NextStore]_vars

-----------------------------------------------------------------------------
(* RecipeStorage over the cache with calls in flight: every await of add    *)
(* and delete is a point where the commands of another call may run         *)

RaceRecords ==
  { [ id |-> i, name |-> <<"P", "i", "e">>, ingredients |-> << <<"E", "g", "g">> >>,
      createdAt |-> 1000 ] : i \in RaceIds }

\* add(recipe) is called
StartAdd(t, recipe) ==
  /\ tasks[t] = NoTask
  /\ tasks' = [tasks EXCEPT ![t] = [op |-> "add", pc |-> "set", id |-> recipe.id,
                                    recipe |-> Some(recipe)]]
  /\ UNCHANGED <<botVars, storeVars, call, job>>

\* await this.redis.set(key, serialized)
AddSet(t) ==
  /\ tasks[t].op = "add" /\ tasks[t].pc = "set"
  /\ redis' = RedisSet(redis, tasks[t].id, SerializeRecipe(The(tasks[t].recipe)))
  /\ tasks' = [tasks EXCEPT ![t].pc = "sadd"]
  /\ UNCHANGED <<botVars, memory, answer, call, job>>

\* await this.redis.sadd(this.RECIPE_INDEX_KEY, recipe.id), and add returns
AddSAdd(t) ==
  /\ tasks[t].op = "add" /\ tasks[t].pc = "sadd"
  /\ redis' = RedisSAdd(redis, tasks[t].id)
  /\ tasks' = [tasks EXCEPT ![t] = NoTask]
  /\ UNCHANGED <<botVars, memory, answer, call, job>>

\* delete(id) is called
StartDelete(t, id) ==
  /\ tasks[t] = NoTask
  /\ tasks' = [tasks EXCEPT ![t] = [op |-> "delete", pc |-> "exists", id |-> id,
                                    recipe |-> None]]
  /\ UNCHANGED <<botVars, storeVars, call, job>>

\* await this.redis.exists(key): delete returns false when there is no key
DeleteExists(t) ==
  /\ tasks[t].op = "delete" /\ tasks[t].pc = "exists"
  /\ tasks' = IF RedisExists(redis, tasks[t].id)
              THEN [tasks EXCEPT ![t].pc = "del"]
              ELSE [tasks EXCEPT ![t] = NoTask]
  /\ UNCHANGED <<botVars, storeVars, call, job>>

\* await this.redis.del(key)
DeleteDel(t) ==
  /\ tasks[t].op = "delete" /\ tasks[t].pc = "del"
  /\ redis' = RedisDel(redis, tasks[t].id)
  /\ tasks' = [tasks EXCEPT ![t].pc = "srem"]
  /\ UNCHANGED <<botVars, memory, answer, call, job>>

\* await this.redis.srem(this.RECIPE_INDEX_KEY, id), and delete returns true
DeleteSRem(t) ==
  /\ tasks[t].op = "delete" /\ tasks[t].pc = "srem"
  /\ redis' = RedisSRem(redis, tasks[t].id)
  /\ tasks' = [tasks EXCEPT ![t] = NoTask]
  /\ UNCHANGED <<botVars, memory, answer, call, job>>

NextRace ==
  \E t \in Tasks :
    \/ \E recipe \in RaceRecords : StartAdd(t, recipe)
    \/ AddSet(t)
    \/ AddSAdd(t)
    \/ \E id \in RaceIds : StartDelete(t, id)
    \/ DeleteExists(t)
    \/ DeleteDel(t)
    \/ DeleteSRem(t)

SpecRace == Init /\ [][NextRace]_vars

-----------------------------------------------------------------------------
(* InMemoryStorage called directly, with identifiers it holds and one it    *)
(* does not hold                                                            *)

StoreTitles == { Some(<<"Soup">>), Some(<<"Stew">>) }

\* Partial<Recipe>
Updates == { [title |-> t] : t \in StoreTitles }

\* Partial<Recipe> naming an owner
OwnerUpdates == { [userId |-> u] : u \in Users }

SessionStates == {"idle", "adding_title"}

Store == [recipes |-> recipes, userRecipes |-> userRecipes]

CallSaveRecipe(u, title) ==
  /\ nextId <= MaxRecipes
  /\ LET recipe == [ id |-> <<UUIDs[nextId]>>, userId |-> u,
                     ingredients |-> <<>>, category |-> None,
                     title |-> title, photo |-> None ]
         saved == SaveRecipe(Store, recipe)
     IN  /\ recipes' = saved.recipes
         /\ userRecipes' = saved.userRecipes
         /\ call' = [NoCall EXCEPT !.op = "saveRecipe", !.id = recipe.id]
  /\ nextId' = nextId + 1
  /\ UNCHANGED <<sessions, last, armed, storeVars, job, tasks>>

\* saveRecipe of a recipe whose id the store already holds
CallSaveRecipeAgain(id, u) ==
  /\ id \in DOMAIN recipes
  /\ LET recipe == [recipes[id] EXCEPT !.userId = u]
         saved == SaveRecipe(Store, recipe)
     IN  /\ recipes' = saved.recipes
         /\ userRecipes' = saved.userRecipes
         /\ call' = [NoCall EXCEPT !.op = "saveRecipe", !.id = recipe.id]
  /\ UNCHANGED <<sessions, nextId, last, armed, storeVars, job, tasks>>

CallGetRecipe(id) ==
  /\ call' = [NoCall EXCEPT !.op = "getRecipe", !.id = id,
                            !.found = GetRecipe(recipes, id)]
  /\ UNCHANGED <<botVars, storeVars, job, tasks>>

CallUpdateRecipe(id, updates) ==
  /\ LET updated == UpdateRecipe(Store, id, updates)
     IN  /\ recipes' = updated.recipes
         /\ userRecipes' = updated.userRecipes
         /\ call' = [NoCall EXCEPT !.op = "updateRecipe", !.id = id,
                                   !.thrown = updated.thrown]
  /\ UNCHANGED <<sessions, nextId, last, armed, storeVars, job, tasks>>

CallDeleteRecipe(id) ==
  /\ LET deleted == DeleteRecipeOrThrow(Store, id)
     IN  /\ recipes' = deleted.recipes
         /\ userRecipes' = deleted.userRecipes
         /\ call' = [NoCall EXCEPT !.op = "deleteRecipe", !.id = id,
                                   !.thrown = deleted.thrown]
  /\ UNCHANGED <<sessions, nextId, last, armed, storeVars, job, tasks>>

CallSetSession(u, state) ==
  /\ sessions' = SetSession(sessions, u, [NewSession(u) EXCEPT !.state = state])
  /\ call' = [NoCall EXCEPT !.op = "setSession"]
  /\ UNCHANGED <<recipes, userRecipes, nextId, last, armed, storeVars, job, tasks>>

NextManualStore ==
  \/ \E u \in Users, title \in StoreTitles : CallSaveRecipe(u, title)
  \/ \E id \in Ids : CallGetRecipe(id)
  \/ \E id \in Ids, updates \in Updates : CallUpdateRecipe(id, updates)
  \/ \E id \in Ids : CallDeleteRecipe(id)
  \/ \E u \in Users, state \in SessionStates : CallSetSession(u, state)

SpecManualStore == Init /\ [][NextManualStore]_vars

\* the calls that write recipes, with ids saved again and owners changed
NextOwners ==
  \/ \E u \in Users, title \in StoreTitles : CallSaveRecipe(u, title)
  \/ \E id \in Ids, u \in Users : CallSaveRecipeAgain(id, u)
  \/ \E id \in Ids, updates \in OwnerUpdates : CallUpdateRecipe(id, updates)
  \/ \E id \in Ids : CallDeleteRecipe(id)

SpecOwners == Init /\ [][NextOwners]_vars

-----------------------------------------------------------------------------
(* The video bot: SupadataService. A URL is a sequence of atoms: a scheme,  *)
(* one of the path prefixes, an identifier, a separator. A transcript has   *)
(* one atom per character.                                                  *)

\* an Error object: its class, its message, the status code it carries
ErrorOf(type, message, statusCode) ==
  [ type |-> type, message |-> message, statusCode |-> statusCode ]

SupadataError(message, statusCode) == ErrorOf("SupadataError", message, statusCode)

\* the outcome of a call: the value returned or the error thrown
Returned(value) == [ ok |-> TRUE, value |-> Some(value), error |-> None ]

Thrown(error) == [ ok |-> FALSE, value |-> None, error |-> Some(error) ]

\* the alternatives of the first pattern of extractVideoId
UrlPrefixes ==
  { "youtube.com/watch?v=", "youtu.be/", "youtube.com/embed/", "youtube.com/v/",
    "youtube.com/shorts/" }

\* [^&\n?#]
Terminators == { "&", "\n", "?", "#" }

\* {11} of the second pattern
VideoIdLength == 11

\* the length of an atom made of [a-zA-Z0-9_-] only, 0 for any other atom
WordLength(atom) ==
  CASE atom = "dQw4w9WgXcQ" -> 11
    [] atom = "dQw4w9WgXc" -> 10
    [] OTHER -> 0

\* ([^&\n?#]+) is greedy: everything up to the first terminator
RECURSIVE UpToTerminator(_)
UpToTerminator(s) ==
  IF s = <<>> \/ Head(s) \in Terminators THEN <<>>
  ELSE <<Head(s)>> \o UpToTerminator(Tail(s))

\* url.match(patterns[0]): the leftmost prefix followed by an identifier
PrefixedId(url) ==
  LET at == { i \in 1..Len(url) :
                url[i] \in UrlPrefixes /\ UpToTerminator(Drop(url, i)) # <<>> }
  IN  IF at = {} THEN None
      ELSE Some(UpToTerminator(Drop(url, CHOOSE i \in at : \A j \in at : i =< j)))

\* url.match(patterns[1]): the whole text is an identifier
BareId(url) ==
  IF Len(url) = 1 /\ WordLength(url[1]) = VideoIdLength THEN Some(url) ELSE None

InvalidUrlFormat == <<"Invalid YouTube URL format">>

ExtractVideoId(url) ==
  IF PrefixedId(url) # None THEN Returned(The(PrefixedId(url)))
  ELSE IF BareId(url) # None THEN Returned(The(BareId(url)))
  ELSE Thrown(SupadataError(InvalidUrlFormat, None))

\* variant: any text is taken as the address of a video
ValidateYouTubeUrlAnyText(url) == Returned([videoId |-> url, url |-> url])

ValidateYouTubeUrl(url) ==
  IF ExtractVideoId(url).ok
  THEN Returned([videoId |-> The(ExtractVideoId(url).value), url |-> url])
  ELSE Thrown(SupadataError(InvalidUrlFormat, None))

\* a value of JavaScript that is a string or missing: '' and undefined are falsy
Truthy(text) == text # None /\ The(text) # <<>>

\* response.ok
ResponseOk(response) == response.status \in 200..299

\* chunks.map(chunk => chunk.text).join(' ')
RECURSIVE Join(_)
Join(texts) ==
  IF texts = <<>> THEN <<>>
  ELSE IF Len(texts) = 1 THEN texts[1]
       ELSE texts[1] \o <<" ">> \o Join(Tail(texts))

\* variant: a body with an error member is passed on when the transport
\* reports success
GetTranscriptTrustingStatus(url, response) ==
  IF response = None
  THEN Thrown(SupadataError(<<"Failed to fetch transcript: ", "fetch failed">>, None))
  ELSE IF ~ResponseOk(The(response))
       THEN Thrown(SupadataError(<<"Supadata API error: ", The(response).statusText, " - ">>
                                   \o The(response).text,
                                 Some(The(response).status)))
       ELSE IF The(response).json = None
       THEN Thrown(SupadataError(<<"Failed to fetch transcript: ", "Unexpected token">>,
                                 None))
       ELSE Returned(The(The(response).json))

\* getTranscript: response is what fetch resolves to, or nothing when fetch
\* rejects; a response carries its status, its status text, its body as text
\* and, when the body is JSON, the parsed body
GetTranscript(url, response) ==
  IF ~ValidateYouTubeUrl(url).ok THEN ValidateYouTubeUrl(url)
  ELSE IF response = None
  THEN Thrown(SupadataError(<<"Failed to fetch transcript: ", "fetch failed">>, None))
  ELSE LET r == The(response)
       IN  IF ~ResponseOk(r)
           THEN Thrown(SupadataError(<<"Supadata API error: ", r.statusText, " - ">> \o r.text,
                                     Some(r.status)))
           ELSE IF r.json = None
           THEN Thrown(SupadataError(<<"Failed to fetch transcript: ", "Unexpected token">>,
                                     None))
           ELSE IF Truthy(The(r.json).error)
           THEN Thrown(SupadataError(
                         <<"Transcript unavailable: ">>
                           \o (IF Truthy(The(r.json).message) THEN The(The(r.json).message)
                               ELSE The(The(r.json).error)),
                         Some(404)))
           ELSE Returned(The(r.json))

\* getPlainTextTranscript: content is a string, a list of chunks or missing
GetPlainTextTranscript(url, response) ==
  LET fetched == GetTranscript(url, response)
  IN  IF ~fetched.ok THEN fetched
      ELSE LET content == The(fetched.value).content
           IN  IF content = None
               THEN Thrown(SupadataError(<<"Transcript content is undefined or null">>, None))
               ELSE IF The(content).isString THEN Returned(The(content).text)
               ELSE Returned(Join(The(content).chunks))

-----------------------------------------------------------------------------
(* The video bot: AIService. The text the remote model answers with is its  *)
(* form (what JSON.parse and the two patterns make of it) and, when it      *)
(* holds an object, that object; a member of the object may be missing.     *)

AIServiceError(message, statusCode) == ErrorOf("AIServiceError", message, statusCode)

InsufficientBalance == <<"Insufficient balance">>

\* the message of the error chatCompletion throws for a response that is not ok
UserMessage(response) ==
  IF response.status = 429 \/ Includes(response.text, InsufficientBalance)
  THEN <<"Z.AI account has insufficient balance">>
  ELSE IF response.status = 401 THEN <<"Invalid Z.AI API key">>
  ELSE <<"Z.AI API error: ", response.statusText>>

\* the text '': no JSON, no fenced block, no braces
EmptyContent == [ form |-> "prose", object |-> None ]

\* chatCompletion: data.choices[0]?.message?.content || ''
ChatCompletion(response) ==
  IF response = None
  THEN Thrown(AIServiceError(<<"Failed to call Z.AI API: ", "fetch failed">>, None))
  ELSE IF ~ResponseOk(The(response))
       THEN Thrown(AIServiceError(UserMessage(The(response)), Some(The(response).status)))
       ELSE IF The(response).content = None THEN Returned(EmptyContent)
       ELSE Returned(The(The(response).content))

\* the forms of the text of an answer:
\*   "json"      an object and nothing else
\*   "fenced"    an object inside a markdown block
\*   "embedded"  an object after a sentence of prose
\*   "misfenced" an object after a sentence of prose, one of whose strings
\*               holds a markdown block with braces around text that is no JSON
\*   "null"      the literal null
\*   "braces"    braces around text that is no JSON
\*   "prose"     no braces at all
Forms == { "json", "fenced", "embedded", "misfenced", "null", "braces", "prose" }

\* A piece of text taken for parsing: whether there is one, and whether
\* JSON.parse makes the object of it rather than throw a SyntaxError
NoPiece == [ matched |-> FALSE, parses |-> FALSE ]

Piece(parses) == [ matched |-> TRUE, parses |-> parses ]

\* the whole text
WholeBody == [ form \in Forms |-> Piece(form = "json") ]

\* response.match(/```(?:json)?\s*(\{[\s\S]*?\})\s*```/): group 1
FencedBlock ==
  [ form \in Forms |->
      CASE form = "fenced" -> Piece(TRUE)
        [] form = "misfenced" -> Piece(FALSE)
        [] OTHER -> NoPiece ]

\* response.match(/\{[\s\S]*\}/): from the first { to the last }
BraceSpan ==
  [ form \in Forms |->
      CASE form \in {"json", "fenced", "embedded", "misfenced"} -> Piece(TRUE)
        [] form = "braces" -> Piece(FALSE)
        [] OTHER -> NoPiece ]

\* jsonMatch = fenced || braces
JsonMatch ==
  [ form \in Forms |-> IF FencedBlock[form].matched THEN FencedBlock[form]
                       ELSE BraceSpan[form] ]

\* JSON.parse(response); in its catch, JSON.parse(jsonMatch[1] || jsonMatch[0]):
\* what parsing ends with for each form
ParseOutcome ==
  [ form \in Forms |->
      IF form = "null" THEN "null"
      ELSE IF WholeBody[form].parses \/ JsonMatch[form].parses THEN "object"
      ELSE IF JsonMatch[form].matched THEN "SyntaxError"
      ELSE "no match" ]

\* the object parsed, or the error thrown
ParseEnd(outcome, object, what) ==
  CASE outcome = "object" -> Returned(The(object))
    [] outcome = "null" ->
         Thrown(AIServiceError(<<"Failed to ", IF what = "AI" THEN "extract" ELSE "translate",
                                 " recipe: ", "Cannot read properties of null">>,
                               None))
    [] outcome = "SyntaxError" ->
         Thrown(AIServiceError(<<"Failed to parse ", what, " response as JSON">>, None))
    [] OTHER ->
         Thrown(AIServiceError(<<"Failed to extract JSON from ", what, " response">>, None))

ParseObject(content, what) == ParseEnd(ParseOutcome[content.form], content.object, what)

\* !recipe.name || !recipe.ingredients || !recipe.instructions: an empty
\* string is falsy, an empty list is not
MissingRequiredFields(recipe) ==
  \/ ~Truthy(recipe.name)
  \/ recipe.ingredients = None
  \/ recipe.instructions = None

Languages == { "en", "ru" }

\* variant: only a missing tag is replaced
CoerceLanguageMissingOnly(recipe) ==
  IF recipe.detectedLanguage = None
  THEN [recipe EXCEPT !.detectedLanguage = Some("en")]
  ELSE recipe

\* if (detectedLanguage !== 'en' && detectedLanguage !== 'ru') detectedLanguage = 'en'
CoerceLanguage(recipe) ==
  IF recipe.detectedLanguage \notin { Some("en"), Some("ru") }
  THEN [recipe EXCEPT !.detectedLanguage = Some("en")]
  ELSE recipe

\* variant: a member that is missing is filled in
ExtractRecipeDefaulting(transcript, response) ==
  LET completion == ChatCompletion(response)
      parsed == ParseObject(The(completion.value), "AI")
      object == The(parsed.value)
  IN  IF ~completion.ok THEN completion
      ELSE IF ~parsed.ok THEN parsed
      ELSE Returned(CoerceLanguage(
             [object EXCEPT
                !.name = IF Truthy(object.name) THEN object.name ELSE Some(<<"Untitled">>),
                !.ingredients = IF object.ingredients = None THEN Some(<<>>)
                                ELSE object.ingredients,
                !.instructions = IF object.instructions = None THEN Some(<<>>)
                                 ELSE object.instructions]))

\* extractRecipe after parsing: validation, then the language tag
ValidateExtracted(parsed) ==
  IF ~parsed.ok THEN parsed
  ELSE IF MissingRequiredFields(The(parsed.value))
  THEN Thrown(AIServiceError(<<"Invalid recipe structure from AI response">>, None))
  ELSE Returned(CoerceLanguage(The(parsed.value)))

ExtractRecipe(transcript, response) ==
  LET completion == ChatCompletion(response)
  IN  IF ~completion.ok THEN completion
      ELSE ValidateExtracted(ParseObject(The(completion.value), "AI"))

\* translateToRussian after parsing: validation, then detectedLanguage = 'ru'
ValidateTranslated(parsed) ==
  IF ~parsed.ok THEN parsed
  ELSE IF MissingRequiredFields(The(parsed.value))
  THEN Thrown(AIServiceError(<<"Invalid translated recipe structure">>, None))
  ELSE Returned([The(parsed.value) EXCEPT !.detectedLanguage = Some("ru")])

TranslateToRussian(recipe, response) ==
  LET completion == ChatCompletion(response)
  IN  IF ~completion.ok THEN completion
      ELSE ValidateTranslated(ParseObject(The(completion.value), "translation"))

\* variant: every recipe is sent to translation
NeedsTranslationAlways(extracted) == TRUE

\* extractedRecipe.detectedLanguage === 'en'
NeedsTranslation(extracted) == extracted.detectedLanguage = Some("en")

\* the Recipe object of processRecipe
RecipeOf(id, final, extracted, youtubeUrl, transcript, now) ==
  [ id |-> id, name |-> The(final.name), cookingTime |-> final.cookingTime,
    ingredients |-> The(final.ingredients), instructions |-> The(final.instructions),
    originalLanguage |-> The(extracted.detectedLanguage), youtubeUrl |-> youtubeUrl,
    transcript |-> transcript, createdAt |-> now ]

\* processRecipe: ai holds the responses to the two requests; the result also
\* tells which requests were sent and what they produced
\* processRecipe once translateToRussian has returned or thrown
AfterTranslation(extracted, translated, transcript, youtubeUrl, id, now) ==
  IF ~translated.ok
  THEN [ outcome |-> translated, requests |-> <<"extract", "translate">>,
         extracted |-> extracted.value, translated |-> None ]
  ELSE [ outcome |-> Returned(RecipeOf(id, The(translated.value), The(extracted.value),
                                       youtubeUrl, transcript, now)),
         requests |-> <<"extract", "translate">>,
         extracted |-> extracted.value, translated |-> translated.value ]

\* processRecipe once extractRecipe has returned or thrown
AfterExtraction(extracted, transcript, youtubeUrl, ai, id, now) ==
  IF ~extracted.ok
  THEN [ outcome |-> extracted, requests |-> <<"extract">>,
         extracted |-> None, translated |-> None ]
  ELSE IF ~NeedsTranslation(The(extracted.value))
  THEN [ outcome |-> Returned(RecipeOf(id, The(extracted.value), The(extracted.value),
                                       youtubeUrl, transcript, now)),
         requests |-> <<"extract">>,
         extracted |-> extracted.value, translated |-> None ]
  ELSE AfterTranslation(extracted,
                        TranslateToRussian(The(extracted.value), ai.translate),
                        transcript, youtubeUrl, id, now)

ProcessRecipe(transcript, youtubeUrl, ai, id, now) ==
  AfterExtraction(ExtractRecipe(transcript, ai.extract), transcript, youtubeUrl, ai, id, now)

-----------------------------------------------------------------------------
(* The video bot: RecipeHandler and createBot. One update is processed to   *)
(* the end; memory is the table of RecipeStorage.                           *)

\* number of recipes the pipeline may store in one behaviour
MaxVideoRecipes == 2

\* recipe_<Date.now()>_<random>: fresh for every recipe
RecipeIds == <<"recipe_1", "recipe_2", "recipe_3", "recipe_4">>

\* message.match(/\/recipe\s+(.+)/): the rest of the line after the blanks
\* that follow the command; when there are only blanks the last of them,
\* unless it is the end of the line
RecipeArgument(text) ==
  LET after == Drop(text, 2)
      rest == TrimStart(after)
      blanks == Len(after) - Len(rest)
  IN  IF ~StartsWith(text, <<"/", "recipe">>) \/ blanks = 0 THEN None
      ELSE IF rest # <<>> THEN Some(SplitLines(rest)[1])
      ELSE IF blanks >= 2 /\ after[blanks] # "\n" THEN Some(<<after[blanks]>>)
      ELSE None

\* the least length of a transcript that is processed
MinTranscriptLength == 50

\* variant: a transcript of the least length is refused too
TooShortInclusive(transcript) ==
  transcript = <<>> \/ Len(transcript) <= MinTranscriptLength

\* !transcript || transcript.length < 50
TooShort(transcript) ==
  transcript = <<>> \/ Len(transcript) < MinTranscriptLength

TranscriptNotAvailable == <<"Transcript not available for this video.">>

\* the catch of handleRecipeCommand: the text shown for an error
ErrorMessage(error) ==
  CASE error.type = "SupadataError" ->
         IF error.statusCode = Some(404) THEN TranscriptNotAvailable
         ELSE <<"Supadata error: ">> \o error.message
    [] error.type = "AIServiceError" -> <<"AI processing error: ">> \o error.message
    [] OTHER -> <<"Error: ">> \o error.message

\* the update ends in the catch: the status message shows the error
Caught(j, error) ==
  [j EXCEPT !.error = error, !.message = ErrorMessage(The(error))]

\* handleRecipeCommand: env holds what the remote services answer; the result
\* is the record of the update and the table it leaves
\* handleRecipeCommand once processRecipe has returned or thrown: storage.add
\* and the card, or the catch
AfterProcessing(sent, processed, m) ==
  LET asked == [sent EXCEPT !.requests = @ \o processed.requests,
                            !.extracted = processed.extracted,
                            !.translated = processed.translated]
  IN  IF ~processed.outcome.ok
      THEN [ job |-> Caught(asked, processed.outcome.error), store |-> m ]
      ELSE [ job |-> [asked EXCEPT !.card = processed.outcome.value,
                                   !.accessed = <<"add">>],
             store |-> Add(m, The(processed.outcome.value)) ]

HandleRecipeCommand(text, env, m) ==
  LET j == [NoJob EXCEPT !.update = "recipe", !.input = text, !.table = m,
                         !.served = env, !.replied = TRUE]
      match == RecipeArgument(text)
      youtubeUrl == Trim(The(match))
      valid == ValidateYouTubeUrl(youtubeUrl)
      sent == [j EXCEPT !.requests = <<"transcript">>]
      fetched == GetPlainTextTranscript(youtubeUrl, env.transcript)
      transcript == The(fetched.value)
  IN  IF match = None
      THEN [ job |-> [j EXCEPT !.message = <<"Please provide a YouTube URL.">>],
             store |-> m ]
      ELSE IF ~valid.ok THEN [ job |-> Caught(j, valid.error), store |-> m ]
      ELSE IF ~fetched.ok THEN [ job |-> Caught(sent, fetched.error), store |-> m ]
      ELSE IF TooShort(transcript)
      THEN [ job |-> Caught(sent, Some(ErrorOf("Error",
                                               <<"Transcript is too short or unavailable">>,
                                               None))),
             store |-> m ]
      ELSE AfterProcessing(sent,
                           ProcessRecipe(transcript, youtubeUrl, env, RecipeIds[Len(m) + 1],
                                         1000 + Len(m)),
                           m)

\* handleListCommand: the store throws when the cache cannot be reached, and
\* nothing is sent
HandleListCommand(m, reachable) ==
  IF ~reachable
  THEN [NoJob EXCEPT !.update = "list", !.table = m, !.thrown = TRUE,
                     !.accessed = <<"getAll">>]
  ELSE [NoJob EXCEPT !.update = "list", !.table = m, !.replied = TRUE,
                     !.accessed = <<"getAll">>,
                     !.message = IF GetAll(m) = <<>> THEN <<"No recipes saved yet.">>
                                 ELSE <<"Saved Recipes">>]

-----------------------------------------------------------------------------
(* The video bot: the updates it is sent and what the remote services       *)
(* answer                                                                   *)

VideoId == "dQw4w9WgXcQ"

\* the texts after "/recipe ": two accepted shapes, then text that is no
\* address of a video
VideoUrls ==
  { <<"https://", "youtube.com/watch?v=", VideoId, "&", "t=42">>,
    <<VideoId>>,
    <<"https://", "vimeo.com/", VideoId>>,
    <<"dQw4w9WgXc">>,
    <<"https://", "youtube.com/watch?v=">>,
    <<"https://", "youtube.com/embed/", "?", VideoId>>,
    <<" ">> }

VideoTexts == { <<"/", "recipe">> } \cup { <<"/", "recipe", " ">> \o url : url \in VideoUrls }

\* a text of n characters
Chars(n) == [i \in 1..n |-> "a"]

\* the body of a response that is not ok, as the provider wrote it
RawBody == <<"quota exceeded for account 42">>

NoData == [ error |-> None, message |-> None, content |-> None ]

StringContent(text) == Some([ isString |-> TRUE, text |-> text, chunks |-> <<>> ])

ChunkContent(chunks) == Some([ isString |-> FALSE, text |-> <<>>, chunks |-> chunks ])

\* what fetch resolves to in getTranscript; nothing stands for a rejected fetch
TranscriptResponses ==
  { None }
    \cup { Some([ status |-> st[1], statusText |-> st[2], text |-> RawBody, json |-> None ]) :
             st \in { <<500, "Internal Server Error">>, <<404, "Not Found">>,
                      <<429, "Too Many Requests">>, <<200, "OK">> } }
    \cup { Some([ status |-> st, statusText |-> "OK", text |-> <<>>, json |-> Some(data) ]) :
             st \in { 200, 206 },
             data \in { [NoData EXCEPT !.error = Some(<<"transcript-unavailable">>),
                                       !.message = Some(<<"No transcript for this video">>)],
                        [NoData EXCEPT !.error = Some(<<"transcript-unavailable">>),
                                       !.content = StringContent(Chars(MinTranscriptLength))] } }
    \cup { Some([ status |-> 200, statusText |-> "OK", text |-> <<>>,
                  json |-> Some([NoData EXCEPT !.content = content]) ]) :
             content \in { None, StringContent(<<>>),
                           StringContent(Chars(MinTranscriptLength - 1)),
                           StringContent(Chars(MinTranscriptLength)),
                           ChunkContent(<<Chars(24), Chars(24)>>) } }

\* the objects the remote model may answer extraction with
Dish(name, ingredients, instructions, language) ==
  [ name |-> name, cookingTime |-> Some(<<"1 hour">>), ingredients |-> ingredients,
    instructions |-> instructions, detectedLanguage |-> language ]

EnglishStew == Dish(Some(<<"Stew">>), Some(<< <<"pork">>, <<"salt">> >>),
                    Some(<< <<"boil">> >>), Some("en"))

RussianPlov == Dish(Some(<<"Plov">>), Some(<< <<"pork">>, <<"ris">> >>),
                    Some(<< <<"varit">> >>), Some("ru"))

ExtractedObjects ==
  { EnglishStew, RussianPlov,
    [EnglishStew EXCEPT !.detectedLanguage = Some("fr")],
    [EnglishStew EXCEPT !.detectedLanguage = None],
    [RussianPlov EXCEPT !.name = None],
    [RussianPlov EXCEPT !.name = Some(<<>>)],
    [RussianPlov EXCEPT !.ingredients = None],
    [EnglishStew EXCEPT !.instructions = None] }

\* the objects the remote model may answer translation with
TranslatedObjects ==
  { Dish(Some(<<"Ragu">>), Some(<< <<"myaso">>, <<"sol">> >>), Some(<< <<"varit">> >>),
         Some("en")),
    Dish(None, Some(<< <<"myaso">> >>), Some(<< <<"varit">> >>), Some("ru")) }

\* the status, status text and body of responses without an answer
Refusals ==
  { <<500, "Internal Server Error", RawBody>>,
    <<500, "Internal Server Error", InsufficientBalance>>,
    <<401, "Unauthorized", RawBody>>,
    <<200, "OK", <<>>>> }

\* the forms of an answer that holds no object
Malformed == { "prose", "braces", "null" }

\* what fetch resolves to in chatCompletion for answers with the given
\* objects, the one of fenced inside a markdown block
ChatResponses(refusals, malformed, objects, fenced) ==
  { None }
    \cup { Some([ status |-> st[1], statusText |-> st[2], text |-> st[3], content |-> None ]) :
             st \in refusals }
    \cup { Some([ status |-> 200, statusText |-> "OK", text |-> <<>>,
                  content |-> Some([ form |-> form, object |-> None ]) ]) :
             form \in malformed }
    \cup { Some([ status |-> 200, statusText |-> "OK", text |-> <<>>,
                  content |-> Some([ form |-> "json", object |-> Some(object) ]) ]) :
             object \in objects }
    \cup { Some([ status |-> 200, statusText |-> "OK", text |-> <<>>,
                  content |-> Some([ form |-> "fenced", object |-> Some(fenced) ]) ]) }

\* answers whose object comes after prose
ProseResponses(object) ==
  { Some([ status |-> 200, statusText |-> "OK", text |-> <<>>,
           content |-> Some([ form |-> form, object |-> Some(object) ]) ]) :
      form \in { "embedded", "misfenced" } }

ExtractResponses ==
  ChatResponses(Refusals, Malformed, ExtractedObjects, EnglishStew)
    \cup ProseResponses(RussianPlov)

TranslateResponses ==
  ChatResponses({ <<500, "Internal Server Error", RawBody>> }, { "braces" },
                TranslatedObjects, RussianPlov)
    \cup ProseResponses(RussianPlov)

Environment(transcript, extract, translate) ==
  [ transcript |-> transcript, extract |-> extract, translate |-> translate ]

\* the answers handleRecipeCommand can tell apart for a text: an answer to a
\* request that is not sent is left out
ReachesTranscript(text) ==
  /\ RecipeArgument(text) # None
  /\ ValidateYouTubeUrl(Trim(The(RecipeArgument(text)))).ok

ReachesExtract(text, transcript) ==
  LET fetched == GetPlainTextTranscript(Trim(The(RecipeArgument(text))), transcript)
  IN  fetched.ok /\ ~TooShort(The(fetched.value))

ReachesTranslate(extract) ==
  /\ ExtractRecipe(<<>>, extract).ok
  /\ NeedsTranslation(The(ExtractRecipe(<<>>, extract).value))

Environments(text) ==
  IF ~ReachesTranscript(text) THEN { Environment(None, None, None) }
  ELSE UNION {
         IF ~ReachesExtract(text, t) THEN { Environment(t, None, None) }
         ELSE UNION {
                IF ~ReachesTranslate(x) THEN { Environment(t, x, None) }
                ELSE { Environment(t, x, tr) : tr \in TranslateResponses } :
                x \in ExtractResponses } :
         t \in TranscriptResponses }

EnvironmentsOf == [text \in VideoTexts |-> Environments(text)]

\* bot.command('recipe'): the handler catches what the pipeline throws
VideoRecipeServed(text, envs) ==
  /\ Len(memory) < MaxVideoRecipes
  /\ \E env \in envs :
       LET handled == HandleRecipeCommand(text, env, memory)
       IN  /\ job' = handled.job
           /\ memory' = handled.store
  /\ UNCHANGED <<botVars, redis, answer, call, tasks>>

VideoRecipe(text) == VideoRecipeServed(text, EnvironmentsOf[text])

\* bot.command('list'): what the handler throws reaches bot.catch, which
\* writes it to the log
VideoList(reachable) ==
  /\ job' = HandleListCommand(memory, reachable)
  /\ UNCHANGED <<botVars, storeVars, call, tasks>>

NextVideo ==
  \/ \E text \in VideoTexts : VideoRecipe(text)
  \/ \E reachable \in BOOLEAN : VideoList(reachable)

SpecVideo == Init /\ [][NextVideo]_vars

\* the /recipe command of both bots, bare and with an argument, over stores
\* that hold recipes
RecipeVideoTexts == { <<"/", "recipe">>, <<"/", "recipe", " ", VideoId>> }

\* the remote services answer with a transcript and a Russian recipe, or the
\* transcript service cannot be reached
RecipeEnvironments ==
  { Environment(None, None, None),
    Environment(Some([ status |-> 200, statusText |-> "OK", text |-> <<>>,
                       json |-> Some([NoData EXCEPT
                                        !.content = StringContent(Chars(MinTranscriptLength))]) ]),
                Some([ status |-> 200, statusText |-> "OK", text |-> <<>>,
                       content |-> Some([ form |-> "json", object |-> Some(RussianPlov) ]) ]),
                None) }

NextRecipeCommand ==
  \/ \E u \in Users : CallSaveRecipe(u, Some(<<"Soup">>))
  \/ \E u \in Users, text \in RecipeCommandTexts : Recipe(u, text)
  \/ \E text \in RecipeVideoTexts : VideoRecipeServed(text, RecipeEnvironments)

SpecRecipeCommand == Init /\ [][NextRecipeCommand]_vars

-----------------------------------------------------------------------------
(* Properties *)

\* the session the last update found, and the one it left
Before == last.before

After == sessions[last.user]

InState(session, states) == session # None /\ The(session).state \in states

IdleOrAbsent(session) ==
  session = None \/ (The(session).state = "idle" /\ The(session).currentRecipe = None)

StoreUntouched == last.removed = {} /\ last.added = {}

PendingOf(session) == IF session = None THEN None ELSE The(session).pendingDelete

\* C1: after /cancel is processed for a user in selecting-category,
\* adding-title or adding-photo, the stored session of that user is idle
\* with no partial recipe; /cancel in idle only reports nothing-to-cancel.
C1_CancelReturnsToIdle ==
  last.update = "cancel" =>
    IF InState(Before, {"selecting_category", "adding_title", "adding_photo"})
    THEN IdleOrAbsent(After)
    ELSE last.replies = <<"nothing_to_cancel">> /\ IdleOrAbsent(After)

\* C2: after a photo or /skip received in adding-photo is processed, the
\* recipe is stored and the stored session of the user is idle again.
C2_FinalizeReturnsToIdle ==
  (last.update \in {"photo", "skip"} /\ InState(Before, {"adding_photo"})) =>
    /\ Cardinality(last.added) = 1
    /\ IdleOrAbsent(After)

\* C3: a /skip that ends the flow ingredients (n lines), category c, title t
\* adds exactly one recipe: owned by the sender, with the n ingredients,
\* category c, title t and no photo.
C3_SkipStoresTheRecipe ==
  ( /\ last.update = "skip"
    /\ InState(Before, {"adding_photo"})
    /\ The(The(Before).currentRecipe).photo = None ) =>
    LET partial == The(The(Before).currentRecipe)
    IN  \E r \in last.added :
          /\ last.added = {r}
          /\ r.userId = last.user
          /\ r.ingredients = partial.ingredients
          /\ Len(r.ingredients) >= 1
          /\ r.category = partial.category
          /\ r.category # None
          /\ r.title = partial.title
          /\ r.title # None
          /\ r.photo = None

HasText(text) == \E i \in 1..Len(text) : ~IsSpace(text[i])

\* the number of lines of a text that hold more than blanks
TextLines(text) ==
  Cardinality({ i \in 1..Len(text) :
                  /\ ~IsSpace(text[i])
                  /\ \A j \in 1..(i - 1) :
                       (\A k \in j..(i - 1) : text[k] # "\n") => text[j] = " " })

\* C4: a free-text message with at least one non-empty line, received in
\* idle, invokes classification exactly once and leaves the session in
\* selecting-category with a partial recipe that holds the classified
\* ingredients, one per non-empty line, and the sender as owner; whether the
\* remote model answered or not.
C4_IdleTextIsClassifiedOnce ==
  ( /\ last.update = "text"
    /\ (Before = None \/ InState(Before, {"idle"}))
    /\ HasText(last.input) ) =>
    /\ last.classifyCalls = 1
    /\ InState(After, {"selecting_category"})
    /\ The(After).currentRecipe # None
    /\ The(After).classifiedIngredients # None
    /\ LET partial == The(The(After).currentRecipe)
       IN  /\ partial.userId = last.user
           /\ partial.ingredients = The(The(After).classifiedIngredients)
           /\ Len(partial.ingredients) = TextLines(last.input)
           /\ \A i \in 1..Len(partial.ingredients) :
                /\ HasText(partial.ingredients[i].name)
                /\ Trim(partial.ingredients[i].name) = partial.ingredients[i].name

C4_FallbackClassified ==
  /\ last.update = "text"
  /\ Before = None
  /\ last.classifyCalls = 1
  /\ InState(After, {"selecting_category"})
  /\ Len(The(The(After).currentRecipe).ingredients) = 2
  /\ The(The(After).currentRecipe).ingredients[1].classification = None

\* the recipe a /recipe <id>, view_<id> or delete_<id> update names
Target ==
  CASE last.update = "recipe" -> Match(last.input)
    [] last.update = "view" -> Drop(last.input, 2)
    [] last.update = "delete" -> Drop(last.input, 2)
    [] OTHER -> <<>>

\* C5: a recipe's content is sent only to its owner, a recipe is removed only
\* by an update of its owner, and a /recipe, view_ or delete_ update that
\* names the recipe of another user is answered 'access denied' and leaves
\* the store as it was.
C5_OnlyOwnerReadsOrDeletes ==
  /\ last.sent # None => The(last.sent).userId = last.user
  /\ \A i \in 1..Len(last.listed) : last.listed[i].userId = last.user
  /\ \A r \in last.removed : r.userId = last.user
  /\ ( /\ last.update \in {"recipe", "view", "delete"}
       /\ Target \in DOMAIN recipes
       /\ recipes[Target].userId # last.user ) =>
       /\ last.replies = <<"access_denied">>
       /\ last.sent = None
       /\ StoreUntouched
       /\ PendingOf(After) = PendingOf(Before)

C5_OtherUserDenied ==
  /\ last.update = "view"
  /\ Target \in DOMAIN recipes
  /\ recipes[Target].userId # last.user
  /\ last.replies = <<"access_denied">>

\* C6: a recipe leaves the store only in a confirm_yes update of a user who
\* asked for its deletion (delete_<id>) since that user's last confirm_no; a
\* delete_<id> update removes nothing and at most records the target.
C6_RemovedOnlyOnConfirmedRequest ==
  [][ /\ \A id \in DOMAIN recipes :
           id \notin DOMAIN recipes' =>
             /\ last'.update = "confirm_yes"
             /\ id \in armed[last'.user]
      /\ last'.update = "delete" =>
           /\ recipes' = recipes
           /\ userRecipes' = userRecipes
           /\ PendingOf(sessions'[last'.user]) \in
                { PendingOf(last'.before), Some(Drop(last'.input, 2)) } ]_vars

C6_ConfirmedRequestRemoved ==
  /\ last.update = "confirm_yes"
  /\ last.removed # {}
  /\ \A r \in last.removed : r.id \in armed[last.user]

\* C7: confirm_yes with pending target R removes exactly R and clears the
\* pending field; confirm_yes with no pending target reports nothing pending
\* and leaves the store as it was (so a second confirm_yes deletes nothing).
C7_ConfirmYesDeletesOnce ==
  last.update = "confirm_yes" =>
    IF Before # None /\ The(Before).pendingDelete # None
    THEN /\ \E r \in last.removed : last.removed = {r} /\ Some(r.id) = The(Before).pendingDelete
         /\ last.added = {}
         /\ The(The(Before).pendingDelete) \notin DOMAIN recipes
         /\ The(After).pendingDelete = None
    ELSE /\ StoreUntouched
         /\ last.replies = <<"no_pending">>
         /\ The(After).pendingDelete = None

C7_PendingDeleted ==
  /\ last.update = "confirm_yes"
  /\ Cardinality(last.removed) = 1
  /\ DOMAIN recipes # {}
  /\ The(After).pendingDelete = None

\* C8: confirm_no clears the pending field of the sender and leaves the
\* store as it was; a confirm_yes of a user with no delete_ request since the
\* user's last confirm_no removes nothing.
C8_ConfirmNoCancelsDeletion ==
  [][ /\ last'.update = "confirm_no" =>
           /\ The(sessions'[last'.user]).pendingDelete = None
           /\ recipes' = recipes
           /\ userRecipes' = userRecipes
      /\ (last'.update = "confirm_yes" /\ armed[last'.user] = {}) =>
           /\ recipes' = recipes
           /\ userRecipes' = userRecipes
           /\ last'.replies = <<"no_pending">> ]_vars

C8_PendingCancelled ==
  /\ last.update = "confirm_no"
  /\ Before # None
  /\ The(Before).pendingDelete # None
  /\ The(The(Before).pendingDelete) \in DOMAIN recipes
  /\ The(After).pendingDelete = None

C10_CategoryIsTheToken ==
  \A c \in CategoryTokens :
    ( /\ last.update = "category"
      /\ last.input = <<"category", "_">> \o c
      /\ InState(Before, {"selecting_category"}) ) =>
      /\ InState(After, {"adding_title"})
      /\ The(The(After).currentRecipe).category = Some(c)

C10_MainCourseSelected ==
  /\ last.update = "category"
  /\ InState(Before, {"selecting_category"})
  /\ InState(After, {"adding_title"})
  /\ The(The(After).currentRecipe).category = Some(<<"main", "_", "course">>)

\* the title of a stored or partial recipe, <<>> when it has none
TitleOf(recipe) == IF recipe.title = None THEN <<>> ELSE The(recipe.title)

\* C11: in adding-title, a text that is an accept-suggestion phrase after
\* trimming and case folding sets the title to the suggestion shown by the
\* category selection just before it, never to the phrase, and moves the
\* session to adding-photo.
C11_AcceptAdoptsShownSuggestion ==
  [][ ( /\ last.update = "category"
        /\ last.shown # None
        /\ last'.update = "text"
        /\ last'.user = last.user
        /\ InState(last'.before, {"adding_title"})
        /\ ToLowerCase(Trim(last'.input)) \in UseSuggestionPhrases ) =>
        /\ InState(sessions'[last'.user], {"adding_photo"})
        /\ The(sessions'[last'.user]).currentRecipe # None
        /\ The(The(sessions'[last'.user]).currentRecipe).title = last.shown ]_vars

\* C12: every stored recipe has a title that is non-empty and of at most
\* MaxTitleLength characters.
C12_StoredTitleIsValid ==
  \A id \in DOMAIN recipes :
    /\ recipes[id].title # None
    /\ Len(TitleOf(recipes[id])) >= 1
    /\ Len(TitleOf(recipes[id])) =< MaxTitleLength

\* the session the middleware attaches for a user whose stored session is
\* the given one
Attached(session, u) == IF session = None THEN Some(NewSession(u)) ELSE session

\* C13: in idle, a text whose lines are all empty after trimming is answered
\* with the validation message only; classification is not invoked and the
\* session stays idle with no partial recipe.
C13_BlankTextIsRejected ==
  ( /\ last.update = "text"
    /\ (Before = None \/ InState(Before, {"idle"}))
    /\ ~HasText(last.input) ) =>
    /\ last.replies = <<"validation">>
    /\ last.classifyCalls = 0
    /\ After = Attached(Before, last.user)
    /\ InState(After, {"idle"})
    /\ The(After).currentRecipe = None
    /\ StoreUntouched

C13_BlankRejectedInIdle ==
  /\ last.update = "text"
  /\ last.input = BlankText
  /\ InState(Before, {"idle"})
  /\ last.replies = <<"validation">>
  /\ InState(After, {"idle"})

\* C14: a photo received in any state but adding-photo is answered with the
\* 'send ingredients first' rejection, and neither the session nor the
\* recipe store changes.
C14_PhotoOutOfStateIsRejected ==
  ( /\ last.update = "photo"
    /\ ~InState(Before, {"adding_photo"}) ) =>
    /\ last.replies = <<"send_ingredients_first">>
    /\ After = Attached(Before, last.user)
    /\ StoreUntouched

C14_PhotoRejectedWithPartialRecipe ==
  /\ last.update = "photo"
  /\ InState(Before, {"selecting_category", "adding_title"})
  /\ last.replies = <<"send_ingredients_first">>
  /\ After = Before

\* C15: a text that is no command, received in selecting-category or
\* adding-photo, is answered with the 'finish the current step or cancel'
\* message, and session and recipe store stay as they were.
C15_TextOutOfStateIsRefused ==
  ( /\ last.update = "text"
    /\ ~StartsWith(last.input, <<"/">>)
    /\ InState(Before, {"selecting_category", "adding_photo"}) ) =>
    /\ last.replies = <<"finish_or_cancel">>
    /\ After = Before
    /\ StoreUntouched

C15_TextRefusedInAddingPhoto ==
  /\ last.update = "text"
  /\ last.input = IngredientsText
  /\ InState(Before, {"adding_photo"})
  /\ last.replies = <<"finish_or_cancel">>
  /\ After = Before

\* C16: every call returns the same from the in-process table and from the
\* remote cache, a list as an ordered sequence.
C16_BackendsAgree ==
  /\ answer.found.mem = answer.found.redis
  /\ answer.list.mem = answer.list.redis
  /\ answer.flag.mem = answer.flag.redis
  /\ answer.count.mem = answer.count.redis

\* the records of a list, and how often each occurs
Listed(list) == { list[i] : i \in 1..Len(list) }

ListedOnce(list) == \A i, j \in 1..Len(list) : list[i] = list[j] => i = j

LatestFirst(list) ==
  \A i, j \in 1..Len(list) : i < j => list[i].createdAt >= list[j].createdAt

Stored == Listed(memory)

\* C17: a record written to the cache and read back is equal in every field,
\* the creation time included: after add(r) the cache holds the text of r,
\* and getById(id) returns the record that was added under id.
C17_RoundTrip ==
  /\ answer.op = "add" =>
       LET r == The(answer.recipe)
       IN  /\ r.id \in DOMAIN redis.keys
           /\ DeserializeRecipe(redis.keys[r.id]) = r
           /\ RedisGetById(redis, r.id) = Some(r)
  /\ (answer.op = "getById" /\ MapHas(memory, answer.id)) =>
       answer.found.redis = GetById(memory, answer.id)

C17_ReadBackWithMillis ==
  /\ answer.op = "getById"
  /\ answer.found.redis # None
  /\ The(answer.found.redis).createdAt = 999
  /\ The(answer.found.redis) \in Stored

\* C18: search returns, from either store, exactly the stored recipes whose
\* name contains the query or, with the ingredient search on, one of whose
\* ingredients does (letter case ignored), each once, the latest first; with
\* no such recipe the list is empty.
C18_SearchIsTheUnion ==
  answer.op = "search" =>
    LET options == The(answer.options)
        q == ToLowerCase(options.query)
        hits == { r \in Stored :
                    \/ Includes(ToLowerCase(r.name), q)
                    \/ /\ options.searchInIngredients
                       /\ \E i \in 1..Len(r.ingredients) :
                            Includes(ToLowerCase(r.ingredients[i]), q) }
    IN  \A list \in {answer.list.mem, answer.list.redis} :
          /\ Listed(list) = hits
          /\ ListedOnce(list)
          /\ LatestFirst(list)

C18_FoundByIngredientOnly ==
  /\ answer.op = "search"
  /\ The(answer.options).query = <<"g", "g">>
  /\ The(answer.options).searchInIngredients
  /\ Len(answer.list.mem) = 2
  /\ Len(answer.list.redis) = 2
  /\ Cardinality(Stored) = 3

\* C19: getAll returns, from either store, every stored record once and
\* nothing else, the latest first; add of an identifier the store holds
\* replaces its record and leaves count as it was; delete removes the record
\* from the listing.
C19_GetAllListsTheStore ==
  [][ /\ answer'.op = "getAll" =>
           \A list \in {answer'.list.mem, answer'.list.redis} :
             /\ Listed(list) = Stored
             /\ ListedOnce(list)
             /\ LatestFirst(list)
      /\ answer'.op = "add" =>
           LET r == The(answer'.recipe)
           IN  /\ Listed(memory') = { x \in Stored : x.id # r.id } \cup {r}
               /\ ListedOnce(memory')
               /\ Listed(RedisGetAll(redis', CHOOSE ids \in SMembers(redis'.index) : TRUE))
                    = Listed(memory')
               /\ MapHas(memory, r.id) =>
                    /\ Count(memory') = Count(memory)
                    /\ RedisCount(redis') = RedisCount(redis)
      /\ answer'.op = "delete" =>
           Listed(memory') = { x \in Stored : x.id # answer'.id } ]_vars

C19_ThreeListed ==
  /\ answer.op = "getAll"
  /\ Len(answer.list.mem) = 3
  /\ Len(answer.list.redis) = 3
  /\ answer.list.mem[1].createdAt > answer.list.mem[3].createdAt
  /\ answer.list.mem[1].id = "r3"

\* C20: delete of an identifier the store does not hold returns false and
\* changes nothing; delete of one it holds returns true and removes that
\* record only, after which getById returns nothing and exists is false;
\* from either store.
C20_DeleteSignalsAbsence ==
  [][ answer'.op = "delete" =>
        LET id == answer'.id
        IN  IF MapHas(memory, id)
            THEN /\ answer'.flag.mem = TRUE
                 /\ answer'.flag.redis = TRUE
                 /\ Listed(memory') = Stored \ { r \in Stored : r.id = id }
                 /\ Count(memory') = Count(memory) - 1
                 /\ RedisCount(redis') = RedisCount(redis) - 1
                 /\ DOMAIN redis'.keys = DOMAIN redis.keys \ {id}
                 /\ \A i \in DOMAIN redis'.keys : redis'.keys[i] = redis.keys[i]
                 /\ GetById(memory', id) = None
                 /\ RedisGetById(redis', id) = None
                 /\ ~Exists(memory', id)
                 /\ ~RedisExists(redis', id)
            ELSE /\ answer'.flag.mem = FALSE
                 /\ answer'.flag.redis = FALSE
                 /\ memory' = memory
                 /\ redis' = redis ]_vars

C20_AbsentNotDeleted ==
  /\ answer.op = "delete"
  /\ answer.flag.mem = FALSE
  /\ answer.flag.redis = FALSE
  /\ Count(memory) = 2
  /\ RedisCount(redis) = 2

\* C21: getRecipe of an identifier the store does not hold returns nothing and
\* does not throw; updateRecipe and deleteRecipe of such an identifier throw
\* and leave the recipes, the index of every user and the sessions as they were
C21_MissingIdFailsLoudly ==
  [][ call'.id \notin DOMAIN recipes =>
        /\ call'.op = "getRecipe" => call'.found = None /\ ~call'.thrown
        /\ call'.op \in {"updateRecipe", "deleteRecipe"} =>
              /\ call'.thrown
              /\ recipes' = recipes
              /\ userRecipes' = userRecipes
              /\ sessions' = sessions ]_vars

C21_MissingIdRefused ==
  /\ call.op = "updateRecipe"
  /\ call.thrown
  /\ call.id = <<GhostId>>
  /\ recipes # <<>>
  /\ \E u \in Users : sessions[u] # None

Range(s) == { s[i] : i \in 1..Len(s) }

\* the text after the command of the last update of the video bot, trimmed
JobUrl == Trim(The(RecipeArgument(job.input)))

\* the last update was /recipe with an argument
RecipeJob == job.update = "recipe" /\ RecipeArgument(job.input) # None

\* the last update ended in the catch of the handler and stored nothing
JobFailed ==
  /\ job.error # None
  /\ job.message # <<>>
  /\ job.card = None
  /\ memory = job.table

\* the last update stored one recipe, the one of the card, after the others
JobStoredOne ==
  /\ job.error = None
  /\ job.card # None
  /\ memory = Append(job.table, The(job.card))

\* C22: when the text after /recipe is none of the accepted shapes of an
\* address, the command fails with the invalid-address error, no request was
\* sent to the transcript service or to the model, and the table is as it was
C22_InvalidUrlStopsTheCommand ==
  (RecipeJob /\ PrefixedId(JobUrl) = None /\ BareId(JobUrl) = None) =>
    /\ job.error = Some(SupadataError(InvalidUrlFormat, None))
    /\ job.requests = <<>>
    /\ JobFailed

C22_OtherSiteRefused ==
  /\ job.input = <<"/", "recipe", " ", "https://", "vimeo.com/", VideoId>>
  /\ job.error # None
  /\ job.requests = <<>>
  /\ job.table # <<>>

\* what the transcript service delivered to the last update
Delivered == GetPlainTextTranscript(JobUrl, job.served.transcript)

\* C23: a transcript of fewer than 50 characters, the empty one included,
\* ends the command before any request to the model and nothing is stored;
\* one of exactly 50 characters is sent to extraction
C23_ShortTranscriptStopsTheCommand ==
  (RecipeJob /\ job.requests # <<>> /\ Delivered.ok) =>
    /\ Len(The(Delivered.value)) < 50 =>
          /\ job.requests = <<"transcript">>
          /\ JobFailed
    /\ Len(The(Delivered.value)) = 50 =>
          /\ Len(job.requests) >= 2
          /\ job.requests[2] = "extract"

C23_FortyNineRefused ==
  /\ RecipeJob
  /\ job.requests = <<"transcript">>
  /\ Delivered.ok
  /\ Len(The(Delivered.value)) = 49
  /\ job.error # None

\* the body of the transcript response is an error envelope
ErrorEnvelope(response) == response.json # None /\ Truthy(The(response.json).error)

\* C24: a transcript response that is not 2xx ends the command with the
\* error of the transcript client carrying the status received; a 2xx
\* response whose body is an error envelope ends it with that error carrying
\* 404 whatever the status received; in both cases no transcript reaches the
\* model, and an error carrying 404 is shown as 'transcript not available'
C24_BothFailureSurfacesAreTyped ==
  (RecipeJob /\ job.requests # <<>> /\ job.served.transcript # None) =>
    LET response == The(job.served.transcript)
    IN  /\ ~ResponseOk(response) =>
              /\ job.error # None
              /\ The(job.error).type = "SupadataError"
              /\ The(job.error).statusCode = Some(response.status)
              /\ job.requests = <<"transcript">>
        /\ (ResponseOk(response) /\ ErrorEnvelope(response)) =>
              /\ job.error # None
              /\ The(job.error).type = "SupadataError"
              /\ The(job.error).statusCode = Some(404)
              /\ job.requests = <<"transcript">>
              /\ job.message = TranscriptNotAvailable
        /\ (job.error # None /\ The(job.error).statusCode = Some(404)) =>
              job.message = TranscriptNotAvailable

C24_EnvelopeOnPartialContent ==
  /\ RecipeJob
  /\ job.served.transcript # None
  /\ The(job.served.transcript).status = 206
  /\ ErrorEnvelope(The(job.served.transcript))
  /\ The(The(job.served.transcript).json).content # None
  /\ job.message = TranscriptNotAvailable

\* what JSON parsing makes of an answer of the model
Parsed(response, what) ==
  IF ChatCompletion(response).ok
  THEN ParseObject(The(ChatCompletion(response).value), what)
  ELSE ChatCompletion(response)

\* the answer holds no object, or one without name, ingredients or instructions
Unusable(response, what) ==
  ~Parsed(response, what).ok \/ MissingRequiredFields(The(Parsed(response, what).value))

\* C25: a recipe is stored only after every step succeeded: when the answer
\* to extraction does not parse or lacks name, ingredients or instructions,
\* or the translation that was asked for fails, the command ends with a
\* failure message and the table is as it was; a command without error
\* stores exactly one recipe
C25_StoredOnlyAfterEveryStep ==
  RecipeJob =>
    /\ ("extract" \in Range(job.requests) /\ Unusable(job.served.extract, "AI")) => JobFailed
    /\ ("translate" \in Range(job.requests)
          /\ Unusable(job.served.translate, "translation")) => JobFailed
    /\ job.error # None => JobFailed
    /\ job.error = None => JobStoredOne /\ ~Unusable(job.served.extract, "AI")
    /\ memory # job.table => job.error = None

C25_TranslationFailedNothingStored ==
  /\ RecipeJob
  /\ job.requests = <<"transcript", "extract", "translate">>
  /\ job.extracted # None
  /\ Unusable(job.served.translate, "translation")
  /\ job.table # <<>>
  /\ memory = job.table

\* C26: translation is asked for exactly when the language of the extracted
\* recipe, after coercion, is not Russian; the stored recipe then has the
\* language detected before translation and the name, ingredients and
\* instructions of the translation, whose language is Russian whatever the
\* model answered; a Russian recipe is stored as extracted, without translation
C26_TranslatedExactlyWhenNotRussian ==
  (RecipeJob /\ job.extracted # None) =>
    LET extracted == The(job.extracted)
        asked == "translate" \in Range(job.requests)
    IN  /\ asked <=> extracted.detectedLanguage # Some("ru")
        /\ (asked /\ job.card # None) =>
              /\ job.translated # None
              /\ The(job.translated).detectedLanguage = Some("ru")
              /\ The(job.card).originalLanguage = The(extracted.detectedLanguage)
              /\ The(job.card).name = The(The(job.translated).name)
              /\ The(job.card).ingredients = The(The(job.translated).ingredients)
              /\ The(job.card).instructions = The(The(job.translated).instructions)
              /\ JobStoredOne
        /\ ~asked =>
              /\ job.translated = None
              /\ The(job.card).originalLanguage = "ru"
              /\ The(job.card).name = The(extracted.name)
              /\ The(job.card).ingredients = The(extracted.ingredients)
              /\ The(job.card).instructions = The(extracted.instructions)
              /\ JobStoredOne

C26_EnglishDraftDiscarded ==
  /\ RecipeJob
  /\ job.card # None
  /\ job.translated # None
  /\ The(job.extracted).name = Some(<<"Stew">>)
  /\ The(Parsed(job.served.translate, "translation").value).detectedLanguage = Some("en")
  /\ The(job.card).name = <<"Ragu">>
  /\ The(job.card).originalLanguage = "en"

\* the language tag of the answer to extraction, as the model wrote it
AnsweredLanguage == The(Parsed(job.served.extract, "AI").value).detectedLanguage

\* C27: every stored recipe has one of the two language tags; an answer to
\* extraction with another tag, or none, is taken as English without an
\* error, and extraction succeeds
C27_LanguageIsOneOfTwo ==
  /\ \A i \in 1..Len(memory) : memory[i].originalLanguage \in Languages
  /\ (RecipeJob /\ "extract" \in Range(job.requests)
        /\ ~Unusable(job.served.extract, "AI")
        /\ AnsweredLanguage \notin { Some("en"), Some("ru") }) =>
       /\ job.extracted # None
       /\ The(job.extracted).detectedLanguage = Some("en")
       /\ "translate" \in Range(job.requests)
       /\ job.card # None => The(job.card).originalLanguage = "en"

C27_UnknownTagStoredAsEnglish ==
  /\ RecipeJob
  /\ "extract" \in Range(job.requests)
  /\ ~Unusable(job.served.extract, "AI")
  /\ AnsweredLanguage = Some("fr")
  /\ job.card # None
  /\ memory[Len(memory)].originalLanguage = "en"

\* C28: no stored recipe has pork among its ingredients
C28_NoPorkIsStored ==
  \A i \in 1..Len(memory) :
    \A k \in 1..Len(memory[i].ingredients) : memory[i].ingredients[k] # <<"pork">>

\* C29: an update whose handler threw has sent a reply to the user
C29_ThrowBecomesAReply == job.thrown => job.replied

\* C30: no text shown to the user holds the body of a response of the
\* transcript service or of the model
C30_NoProviderBodyIsShown ==
  \A i \in 1..Len(job.message) : job.message[i] \notin Range(RawBody)

\* the stored recipes of a user, by the owner each record names
OwnedBy(u) == { id \in DOMAIN recipes : recipes[id].userId = u }

\* C38: after any sequence of saveRecipe, updateRecipe and deleteRecipe,
\* getUserRecipes(u) returns exactly the stored recipes whose owner is u, each
\* of them once
C38_ListIsTheOwnersRecipes ==
  \A u \in Users :
    LET listed == GetUserRecipes(Store, u)
    IN  /\ { listed[i].id : i \in 1..Len(listed) } = OwnedBy(u)
        /\ \A i, j \in 1..Len(listed) : listed[i].id = listed[j].id => i = j
        /\ \A i \in 1..Len(listed) : listed[i] = recipes[listed[i].id]
\* C33: after a category is selected, the reply presents a title suggestion if
\* and only if the value suggestTitle returned differs from the fallback the AI
\* client returns when its call fails; after a failed call no suggestion is
\* presented
C33_SuggestionUnlessFallback ==
  last.suggested # None =>
    (last.shown # None <=> last.suggested # Some(TitleFallback))
\* the category of the partial recipe of a session
CategoryOf(session) ==
  IF session = None \/ The(session).currentRecipe = None THEN None
  ELSE The(The(session).currentRecipe).category

\* C35: a category button takes effect only in selecting_category: pressed in
\* idle, adding_title or adding_photo it changes neither the state of the
\* session nor the category of the partial recipe; adding_title is entered
\* only from selecting_category, and a session in adding_photo never goes
\* back to an earlier step of the entry
C35_CategoryOnlyWhenSelecting ==
  last.update # "none" =>
    /\ (last.update = "category" /\ StateOf(Before) # "selecting_category") =>
          /\ StateOf(After) = StateOf(Before)
          /\ CategoryOf(After) = CategoryOf(Before)
    /\ (StateOf(After) = "adding_title" /\ StateOf(Before) # "adding_title") =>
          StateOf(Before) = "selecting_category"
    /\ StateOf(Before) = "adding_photo" =>
          StateOf(After) \notin {"selecting_category", "adding_title"}
\* the session a handler works on: the stored one, or the idle one
\* sessionMiddleware creates for a user that has none
SessionOf(session, u) == IF session = None THEN NewSession(u) ELSE The(session)

\* C34: a callback whose data matches none of category_*, view_*, delete_*,
\* confirm_yes and confirm_no (the Edit button, for one) is acknowledged and
\* changes neither the session of its sender nor the stored recipes
C34_UnknownCallbackOnlyAcknowledged ==
  [][ last'.update = "other" =>
        /\ last'.replies = <<"ack">>
        /\ SessionOf(sessions'[last'.user], last'.user)
             = SessionOf(sessions[last'.user], last'.user)
        /\ \A u \in Users \ {last'.user} : sessions'[u] = sessions[u]
        /\ recipes' = recipes
        /\ userRecipes' = userRecipes ]_vars

C34_EditPressedWhileTitling ==
  /\ last.update = "other"
  /\ last.input = <<"edit", "_", UUIDs[1]>>
  /\ last.replies = <<"ack">>
  /\ InState(After, {"adding_title"})
  /\ <<UUIDs[1]>> \in DOMAIN recipes
\* the /recipe command and nothing after it
BareRecipeCommand == <<"/", "recipe">>

\* C31: a /recipe command with no argument is answered with the usage message
\* and calls no recipe operation of the store and no remote service, in the
\* manual bot and in the video bot alike
C31_BareRecipeCommandOnlyExplains ==
  /\ (last.update = "recipe" /\ last.input = BareRecipeCommand) =>
        /\ last.replies = <<"usage">>
        /\ last.accessed = <<>>
        /\ last.classifyCalls = 0 /\ last.suggested = None
        /\ StoreUntouched
  /\ (job.update = "recipe" /\ job.input = BareRecipeCommand) =>
        /\ job.message = <<"Please provide a YouTube URL.">>
        /\ job.replied /\ ~job.thrown
        /\ job.accessed = <<>>
        /\ job.requests = <<>>
        /\ memory = job.table

C31_BareCommandOverFullStores ==
  /\ last.update = "recipe" /\ last.input = BareRecipeCommand
  /\ last.replies = <<"usage">>
  /\ recipes # <<>>
  /\ job.update = "recipe" /\ job.input = BareRecipeCommand
  /\ job.message = <<"Please provide a YouTube URL.">>
  /\ memory # <<>>
\* the text of the answer to the last request of the last update
LastContent ==
  LET step == job.requests[Len(job.requests)]
      response == IF step = "extract" THEN job.served.extract ELSE job.served.translate
  IN  The(ChatCompletion(response).value)

\* the errors of parsing: no piece to parse, or a piece that is no JSON
ParseErrors ==
  { AIServiceError(<<"Failed to parse ", what, " response as JSON">>, None) :
      what \in { "AI", "translation" } }
    \cup { AIServiceError(<<"Failed to extract JSON from ", what, " response">>, None) :
             what \in { "AI", "translation" } }

\* C32: the answer to extraction and to translation is parsed by three
\* strategies in turn, the whole text, the content of a fenced block, the span
\* of the braces, stopping at the first that succeeds: parsing fails only
\* when all three fail
C32_ParseFailsOnlyWhenAllFail ==
  (RecipeJob /\ job.error # None /\ The(job.error) \in ParseErrors) =>
    /\ ~WholeBody[LastContent.form].parses
    /\ ~FencedBlock[LastContent.form].parses
    /\ ~BraceSpan[LastContent.form].parses
\* C36: every accepted ingredient list leads to at most one stored recipe: a
\* user never has more stored recipes than ingredient lists of theirs were
\* accepted in idle, however often a photo or /skip is sent in adding_photo
C36_OneRecipePerIngredientList ==
  \A u \in Users : Cardinality(OwnedBy(u)) <= last.accepted[u]
\* no call of the cache store is in flight
Quiescent == \A t \in Tasks : tasks[t] = NoTask

\* C37: in the cache store, whenever no add, delete or clear is in flight, the
\* set of identifiers holds exactly the ids that have a record, so that
\* count(), exists() and getAll() agree, whatever the order in which the
\* commands of concurrent calls of add and delete on one id reached the cache
C37_IndexMatchesRecordsAtRest ==
  Quiescent =>
    /\ redis.index = DOMAIN redis.keys
    /\ \A id \in RaceIds : RedisExists(redis, id) <=> id \in redis.index
    /\ \A ids \in SMembers(redis.index) :
          Len(RedisGetAll(redis, ids)) = RedisCount(redis)
====
